---- MODULE Spec2Model ----
(***************************************************************************)
(* The loop controller of gumloop (internal/runner): Runner.Run drives one *)
(* agent pass after another, RunIteration measures each pass through git,  *)
(* and the loop decides between continuing and one of the exit codes.      *)
(***************************************************************************)
EXTENDS Integers, Sequences, FiniteSets, TLC

\* ------------------------------------------------------------------ bounds
MaxIters == 2        \* largest iteration cap tried (--choo-choo N)
MaxThreshold == 2    \* largest stuck threshold tried
MaxPasses == 3       \* passes explored when no cap is configured
MaxCommits == 2      \* largest commit count of the repository explored
MaxLines == 2        \* lines of agent output one call of Process reads
MaxStatus == 2       \* lines of `git status --porcelain` output
MaxOut == 3          \* lines the agent writes in a pass
EventsCap == 2       \* room in the event channel (100 in the program)
PipeCap == 1         \* lines an OS pipe holds before a write to it blocks
MaxCalls == 3        \* calls of RecordIteration explored

\* ------------------------------------------------------- program constants
ExitSuccess == 0
ExitError == 1
ExitSafety == 2
ExitMaxIterations == 3
ExitStuck == 4
ExitInterrupt == 130
MaxCommitLog == 20

\* ExitReasonString with Stuck and MaxIterations exchanged.
ExitReasonStringSwapped(code) ==
    CASE code = ExitSuccess -> "Complete (no changes)"
      [] code = ExitError -> "Error"
      [] code = ExitSafety -> "Safety refusal"
      [] code = ExitMaxIterations -> "Stuck (no commits)"
      [] code = ExitStuck -> "Max iterations reached"
      [] code = ExitInterrupt -> "Interrupted"
      [] OTHER -> "Unknown exit code"

\* metrics.go ExitReasonString (the leading emoji of each string is left out).
ExitReasonString(code) ==
    CASE code = ExitSuccess -> "Complete (no changes)"
      [] code = ExitError -> "Error"
      [] code = ExitSafety -> "Safety refusal"
      [] code = ExitMaxIterations -> "Max iterations reached"
      [] code = ExitStuck -> "Stuck (no commits)"
      [] code = ExitInterrupt -> "Interrupted"
      [] OTHER -> "Unknown exit code"

VARIABLES
    \* configuration, fixed by runner.New
    singleRun,          \* !chooChoo
    maxIters,           \* 0 means unlimited
    StuckThreshold,     \* config.StuckThreshold
    AutoPush,           \* config.AutoPush
    verifySet,          \* config.Verify != ""
    \* Runner and Metrics
    pc,                 \* "boundary" (top of the for loop), "running" (cmd.Wait), "done"
    Iterations,         \* metrics.Iterations
    Commits,            \* metrics.Commits
    ExitReason,         \* metrics.ExitReason
    iterationsWithoutCommit,
    ret,                \* <<>> until Run returns, then <<exit code>>
    \* signal handling
    sigPending,         \* a signal sits in sigChan
    cancelled,          \* ctx.Done() is closed
    \* the repository
    commitCount,        \* git rev-list --count HEAD
    dirty,              \* git status --porcelain is non-empty
    \* locals of the loop body, as of the last pass
    commitsBefore,
    commitsMade,
    hasChanges,
    iterErr,            \* "none" or which step of RunIteration failed
    pushAttempted,
    pushOutcome,        \* "none", or how the push block of the last pass went
    \* history of the run, read by the properties only
    stuckRun,           \* passes in a row that ended with changes and commitsMade = 0
    counterBefore,      \* iterationsWithoutCommit when the last pass was evaluated
    cancelledAt,        \* pass in flight when ctx was cancelled, 0 if none
    actualMade,         \* commits really added to the branch during the last pass
    \* one call of RunIteration taken alone
    itIn,               \* <<>> or <<the outcomes of the steps of the call>>
    itOut,              \* <<>> or <<what the call returned and which steps it took>>
    \* one call of an adapter's Process
    dialect,            \* "claude", "codex", "passthrough", or "" outside such a call
    consumed,           \* the lines scanner.Scan() has delivered, in order
    events,             \* the events sent to the channel, in order
    lastEmitted,        \* the events sent for the last line delivered
    scanEnd,            \* "open", then "eof" or "error" once Scan() has returned false
    procRet,            \* "running", then "nil" or "err": what Process returned
    \* one call of Agent.BuildCommand
    bcIn,               \* <<>> or <<the profile and the arguments of the call>>
    bcOut,              \* <<>> or <<argv>>
    \* one call of a helper of package git
    gitIn,              \* <<>> or <<what git prints for the call>>
    gitOut,             \* <<>> or <<what the helper returned>>
    \* one invocation of `gumloop run`
    cliIn,              \* <<>> or <<the flags, the config file and the directory>>
    cliPc,              \* where runRun stands
    cliOut,             \* what the invocation has done so far
    \* the goroutines of one call of RunIteration
    agentPlan,          \* the streams the subprocess still wants to write a line to, in order
    agentWritten,       \* lines the subprocess has written so far
    agentExited,        \* the subprocess has exited
    stdoutBuf,          \* lines written to stdout and not read yet
    stderrBuf,          \* lines written to stderr and not read yet
    pipesClosed,        \* cmd.Wait() has closed the read ends of both pipes
    reading,            \* the reader io.MultiReader is at: "stdout", "stderr", "end"
    feedPc,             \* the adapter goroutine: "scan", "send", "close", "signal", "end"
    held,               \* events Process still has to send for the line it read
    readLines,          \* the lines Process has read, in order
    processRet,         \* "" until Process returns, then "nil" or "error"
    chanBuf,            \* the events channel's buffer
    chanCloses,         \* how many times close(events) ran
    sentOnClosed,       \* an event was sent on the closed channel
    emitted,            \* the events Process has sent, in order
    doneBuf,            \* adapterDone's buffer
    drainPc,            \* the display goroutine: "recv", "end"
    received,           \* the events the display goroutine received, in order
    mainPc,             \* RunIteration itself: "wait", "adapterWait", "post", "returned"
    \* session memory
    memory,             \* <<>> or <<the SessionMemory object>>
    recorded,           \* the calls of RecordIteration taken alone, in order
    session             \* <<>> or <<a run with memory: its runner, Metrics and memory file>>

iteration == <<itIn, itOut>>
adapter == <<dialect, consumed, events, lastEmitted, scanEnd, procRet>>
builder == <<bcIn, bcOut>>

\* the variables of the components checked apart from the loop
detector == <<gitIn, gitOut>>
cli == <<cliIn, cliPc, cliOut>>
supervisor == <<agentPlan, agentWritten, agentExited, stdoutBuf, stderrBuf, pipesClosed,
                reading, feedPc, held, readLines, processRet, chanBuf, chanCloses, sentOnClosed,
                emitted, doneBuf, drainPc, received, mainPc>>
memo == <<memory, recorded, session>>
extras == <<detector, cli, supervisor, memo>>
aside == <<iteration, adapter, builder, extras>>

\* the variables of Runner.Run
runner == <<singleRun, maxIters, StuckThreshold, AutoPush, verifySet, pc, Iterations,
            Commits, ExitReason, iterationsWithoutCommit, ret, sigPending, cancelled,
            commitCount, dirty, commitsBefore, commitsMade, hasChanges, iterErr,
            pushAttempted, pushOutcome, stuckRun, counterBefore, cancelledAt,
            actualMade>>

vars == <<runner, aside>>

config == <<singleRun, maxIters, StuckThreshold, AutoPush, verifySet>>
signals == <<sigPending, cancelled, cancelledAt>>
repo == <<commitCount, dirty>>

Returned == ret # <<>>
ExitCode == ret[1]

\* ---------------------------------------------------------------- helpers

\* The boundary checks with the cap tested before the interrupt.
BoundaryCheckCapFirst(isCancelled, iters, cap) ==
    IF cap > 0 /\ iters >= cap THEN "max"
    ELSE IF isCancelled THEN "interrupt"
    ELSE "run"

\* The boundary checks with an off-by-one cap test.
BoundaryCheckCapLate(isCancelled, iters, cap) ==
    IF isCancelled THEN "interrupt"
    ELSE IF cap > 0 /\ iters > cap THEN "max"
    ELSE "run"

\* The boundary checks without the select on ctx.Done().
BoundaryCheckNoInterrupt(isCancelled, iters, cap) ==
    IF cap > 0 /\ iters >= cap THEN "max"
    ELSE "run"

\* runner.go 84-98: the select on ctx.Done(), then the cap.
BoundaryCheck(isCancelled, iters, cap) ==
    IF isCancelled THEN "interrupt"
    ELSE IF cap > 0 /\ iters >= cap THEN "max"
    ELSE "run"

\* RunIterationResult returning no commits when the verification fails.
RunIterationResultZeroOnVerify(before, after, adapterErr, afterErr, filesErr, verifyFail) ==
    IF adapterErr THEN [commits |-> 0, err |-> "adapter"]
    ELSE IF afterErr THEN [commits |-> 0, err |-> "count_after"]
    ELSE IF filesErr THEN [commits |-> after - before, err |-> "changed_files"]
    ELSE IF verifyFail THEN [commits |-> 0, err |-> "verify"]
    ELSE [commits |-> after - before, err |-> "none"]

\* RunIterationResult with a failure of GetChangedFiles passed over.
RunIterationResultFilesIgnored(before, after, adapterErr, afterErr, filesErr, verifyFail) ==
    IF adapterErr THEN [commits |-> 0, err |-> "adapter"]
    ELSE IF afterErr THEN [commits |-> 0, err |-> "count_after"]
    ELSE IF verifyFail THEN [commits |-> after - before, err |-> "verify"]
    ELSE [commits |-> after - before, err |-> "none"]

\* RunIteration's results after the subprocess was spawned (iteration.go 124-190).
RunIterationResult(before, after, adapterErr, afterErr, filesErr, verifyFail) ==
    IF adapterErr THEN [commits |-> 0, err |-> "adapter"]
    ELSE IF afterErr THEN [commits |-> 0, err |-> "count_after"]
    ELSE IF filesErr THEN [commits |-> after - before, err |-> "changed_files"]
    ELSE IF verifyFail THEN [commits |-> after - before, err |-> "verify"]
    ELSE [commits |-> after - before, err |-> "none"]

\* A non-zero exit of the agent ending the pass with an error.
CmdErrOutcomeReturn(cmdErr) == IF cmdErr THEN "return" ELSE "continue"

\* iteration.go 134-137: cmdErr is printed, nothing more.
CmdErrOutcome(cmdErr) == "continue"

\* iteration.go 35-191: one call, from the outcomes `in` of its steps: what it
\* returns, and whether it took the second count, the file counts and the
\* verification command.
RunIteration(in) ==
    IF in.startErr
        THEN [commits |-> 0, err |-> "start", postCounted |-> FALSE,
              filesCounted |-> FALSE, verifyRan |-> FALSE]
    ELSE IF CmdErrOutcome(in.cmdErr) = "return"
        THEN [commits |-> 0, err |-> "agent_exit", postCounted |-> FALSE,
              filesCounted |-> FALSE, verifyRan |-> FALSE]
    ELSE LET r == RunIterationResult(in.before, in.after, in.adapterErr, in.afterErr,
                                     in.filesErr, in.verify /\ in.verifyFail)
         IN  [commits |-> r.commits, err |-> r.err,
              postCounted |-> ~in.adapterErr,
              filesCounted |-> ~in.adapterErr /\ ~in.afterErr,
              verifyRan |-> in.verify /\ ~in.adapterErr /\ ~in.afterErr /\ ~in.filesErr]

\* runner.go 136-148: how the push block can go: not entered, git.GetBranch
\* fails, git.Push fails, git.Push succeeds.
PushOutcomes(made, autoPush) ==
    IF made > 0 /\ autoPush THEN {"branch_failed", "push_failed", "pushed"}
                            ELSE {"none"}

\* A failed push ending the run.
PushEffectAbort(outcome) ==
    IF outcome \in {"branch_failed", "push_failed"} THEN "return" ELSE "continue"

\* runner.go 138-146: each outcome is printed, nothing more.
PushEffect(outcome) == "continue"

\* git.HasChanges as Run uses it: a failed query counts as no changes.
QueryHasChanges(isDirty, queryErr) == IF queryErr THEN FALSE ELSE isDirty

\* The completion test without the commitsMade condition.
IsCompleteIgnoringCommits(hasCh, made) == ~hasCh

\* runner.go 158
IsComplete(hasCh, made) == ~hasCh /\ made = 0

\* The stuck counter without the reset on commits.
StuckCountNoReset(hasCh, made, count) ==
    IF hasCh /\ made = 0 THEN count + 1 ELSE count

\* runner.go 165-175: the counter after the pass.
StuckCount(hasCh, made, count) ==
    IF hasCh /\ made = 0 THEN count + 1
    ELSE IF made > 0 THEN 0
    ELSE count

\* The threshold test with > for >=.
IsStuckStrict(hasCh, made, count, threshold) ==
    hasCh /\ made = 0 /\ count > threshold

\* runner.go 165-167, on the incremented counter.
IsStuck(hasCh, made, count, threshold) ==
    hasCh /\ made = 0 /\ count >= threshold

\* The single-run exit left out.
SingleRunExitNever(single) == FALSE

\* runner.go 178
SingleRunExit(single) == single

\* runner.go 157-182: the exit the loop body takes after a pass, <<>> to go on.
Evaluate(hasCh, made, count, threshold, single) ==
    IF IsComplete(hasCh, made) THEN <<ExitSuccess>>
    ELSE IF IsStuck(hasCh, made, StuckCount(hasCh, made, count), threshold)
        THEN <<ExitStuck>>
    ELSE IF SingleRunExit(single) THEN <<ExitSuccess>>
    ELSE <<>>

\* ------------------------------------------------------------------- Init

\* No call of RunIteration, of an adapter or of BuildCommand is being looked at.
IterationIdle == itIn = <<>> /\ itOut = <<>>
AdapterIdle ==
    /\ dialect = ""
    /\ consumed = <<>>
    /\ events = <<>>
    /\ lastEmitted = <<>>
    /\ scanEnd = "open"
    /\ procRet = "running"
BuilderIdle == bcIn = <<>> /\ bcOut = <<>>
DetectorIdle == gitIn = <<>> /\ gitOut = <<>>
CliIdle ==
    /\ cliIn = <<>>
    /\ cliPc = "load"
    /\ cliOut = [runEntered |-> FALSE, run |-> <<>>, summary |-> <<>>, exit |-> <<>>]
GoroutinesAtStart ==
    /\ agentWritten = 0 /\ agentExited = FALSE
    /\ stdoutBuf = <<>> /\ stderrBuf = <<>> /\ pipesClosed = FALSE
    /\ reading = "stdout" /\ feedPc = "scan" /\ held = <<>> /\ readLines = <<>>
    /\ processRet = "" /\ chanBuf = <<>> /\ chanCloses = 0 /\ sentOnClosed = FALSE
    /\ emitted = <<>> /\ doneBuf = <<>> /\ drainPc = "recv" /\ received = <<>>
    /\ mainPc = "wait"
SupervisorIdle == agentPlan = <<>> /\ GoroutinesAtStart
MemoIdle == memory = <<>> /\ recorded = <<>> /\ session = <<>>
ExtrasIdle == DetectorIdle /\ CliIdle /\ SupervisorIdle /\ MemoIdle

\* Run is not looked at: a runner as New returns it, in an untouched repository.
RunnerIdle ==
    /\ singleRun = FALSE /\ maxIters = 0 /\ StuckThreshold = 0
    /\ AutoPush = FALSE /\ verifySet = FALSE
    /\ pc = "boundary" /\ Iterations = 0 /\ Commits = 0 /\ ExitReason = ""
    /\ iterationsWithoutCommit = 0 /\ ret = <<>>
    /\ sigPending = FALSE /\ cancelled = FALSE
    /\ commitCount = 0 /\ dirty = FALSE
    /\ commitsBefore = 0 /\ commitsMade = 0 /\ hasChanges = FALSE
    /\ iterErr = "none" /\ pushAttempted = FALSE /\ pushOutcome = "none"
    /\ stuckRun = 0 /\ counterBefore = 0 /\ cancelledAt = 0 /\ actualMade = 0

Init ==
    /\ IterationIdle
    /\ AdapterIdle
    /\ BuilderIdle
    /\ ExtrasIdle
    /\ singleRun \in BOOLEAN
    /\ maxIters \in 0..MaxIters
    /\ singleRun => maxIters = 0
    /\ StuckThreshold \in 0..MaxThreshold
    /\ AutoPush \in BOOLEAN
    /\ verifySet \in BOOLEAN
    /\ pc = "boundary"
    /\ Iterations = 0
    /\ Commits = 0
    /\ ExitReason = ""
    /\ iterationsWithoutCommit = 0
    /\ ret = <<>>
    /\ sigPending = FALSE
    /\ cancelled = FALSE
    /\ commitCount \in 0..1
    /\ dirty \in BOOLEAN
    /\ commitsBefore = 0
    /\ commitsMade = 0
    /\ hasChanges = FALSE
    /\ iterErr = "none"
    /\ pushAttempted = FALSE
    /\ pushOutcome = "none"
    /\ stuckRun = 0
    /\ counterBefore = 0
    /\ cancelledAt = 0
    /\ actualMade = 0

\* ---------------------------------------------------------------- actions

\* runner.go 130-182: the loop body from `r.metrics.Commits += commitsMade` on.
AfterIteration(made, err, queryErr, realMade) ==
    \E push \in PushOutcomes(made, AutoPush) :
    LET hasCh == QueryHasChanges(dirty, queryErr)
        exit == IF PushEffect(push) = "return"
                    THEN <<ExitError>>
                    ELSE Evaluate(hasCh, made, iterationsWithoutCommit, StuckThreshold,
                                  singleRun)
    IN  /\ commitsMade' = made
        /\ iterErr' = err
        /\ Commits' = Commits + made
        /\ pushAttempted' = (made > 0 /\ AutoPush)
        /\ pushOutcome' = push
        /\ hasChanges' = hasCh
        /\ counterBefore' = iterationsWithoutCommit
        /\ iterationsWithoutCommit' =
               IF IsComplete(hasCh, made) THEN iterationsWithoutCommit
               ELSE StuckCount(hasCh, made, iterationsWithoutCommit)
        /\ stuckRun' = IF hasCh /\ made = 0 THEN stuckRun + 1 ELSE 0
        /\ actualMade' = realMade
        /\ ret' = exit
        /\ ExitReason' = IF exit = <<>> THEN ExitReason ELSE ExitReasonString(exit[1])
        /\ pc' = IF exit = <<>> THEN "boundary" ELSE "done"

\* runner.go 85-91
ReturnInterrupt ==
    /\ pc = "boundary"
    /\ BoundaryCheck(cancelled, Iterations, maxIters) = "interrupt"
    /\ ExitReason' = ExitReasonString(ExitInterrupt)
    /\ ret' = <<ExitInterrupt>>
    /\ pc' = "done"
    /\ UNCHANGED <<aside, config, signals, repo, Iterations, Commits, iterationsWithoutCommit,
                   commitsBefore, commitsMade, hasChanges, iterErr, pushAttempted, pushOutcome,
                   stuckRun, counterBefore, actualMade>>

\* runner.go 93-98
ReturnMaxIterations ==
    /\ pc = "boundary"
    /\ BoundaryCheck(cancelled, Iterations, maxIters) = "max"
    /\ ExitReason' = ExitReasonString(ExitMaxIterations)
    /\ ret' = <<ExitMaxIterations>>
    /\ pc' = "done"
    /\ UNCHANGED <<aside, config, signals, repo, Iterations, Commits, iterationsWithoutCommit,
                   commitsBefore, commitsMade, hasChanges, iterErr, pushAttempted, pushOutcome,
                   stuckRun, counterBefore, actualMade>>

\* A pass started while the one before it is still running.
StartIterationOverlapping ==
    /\ pc \in {"boundary", "running"}
    /\ BoundaryCheck(cancelled, Iterations, maxIters) = "run"
    /\ Iterations < MaxPasses
    /\ Iterations' = Iterations + 1
    /\ commitsBefore' = commitCount
    /\ pushOutcome' = "none"
    /\ pc' = "running"
    /\ UNCHANGED <<aside, config, signals, repo, Commits, ExitReason, iterationsWithoutCommit,
                   ret, commitsMade, hasChanges, iterErr, pushAttempted, stuckRun,
                   counterBefore, actualMade>>

\* runner.go 101-117 and iteration.go 45-81: the pass starts and the agent is spawned.
StartIteration ==
    /\ pc = "boundary"
    /\ BoundaryCheck(cancelled, Iterations, maxIters) = "run"
    /\ Iterations < MaxPasses
    /\ Iterations' = Iterations + 1
    /\ commitsBefore' = commitCount
    /\ pushOutcome' = "none"      \* no push yet in this pass
    /\ pc' = "running"
    /\ UNCHANGED <<aside, config, signals, repo, Commits, ExitReason, iterationsWithoutCommit,
                   ret, commitsMade, hasChanges, iterErr, pushAttempted, stuckRun,
                   counterBefore, actualMade>>

\* A pass that fails to start, left out of Metrics.Iterations.
StartIterationFailsUncounted ==
    /\ pc = "boundary"
    /\ BoundaryCheck(cancelled, Iterations, maxIters) = "run"
    /\ Iterations < MaxPasses
    /\ Iterations' = Iterations
    /\ \E queryErr \in BOOLEAN : AfterIteration(0, "start", queryErr, 0)
    /\ UNCHANGED <<aside, config, signals, repo, commitsBefore>>

\* iteration.go 46-81 returning (0, err) before any subprocess runs (the first count,
\* an empty command, the pipes or cmd.Start failed), then runner.go 125-182.
StartIterationFails ==
    /\ pc = "boundary"
    /\ BoundaryCheck(cancelled, Iterations, maxIters) = "run"
    /\ Iterations < MaxPasses
    /\ Iterations' = Iterations + 1
    /\ \E queryErr \in BOOLEAN : AfterIteration(0, "start", queryErr, 0)
    /\ UNCHANGED <<aside, config, signals, repo, commitsBefore>>

\* The agent subprocess commits.
AgentCommit ==
    /\ pc = "running"
    /\ commitCount < MaxCommits
    /\ commitCount' = commitCount + 1
    /\ dirty' \in BOOLEAN
    /\ UNCHANGED <<aside, config, signals, pc, Iterations, Commits, ExitReason,
                   iterationsWithoutCommit, ret, commitsBefore, commitsMade, hasChanges,
                   iterErr, pushAttempted, pushOutcome, stuckRun, counterBefore, actualMade>>

\* The agent subprocess edits or cleans the working tree.
AgentEdit ==
    /\ pc = "running"
    /\ dirty' = ~dirty
    /\ UNCHANGED <<aside, config, signals, pc, Iterations, Commits, ExitReason,
                   iterationsWithoutCommit, ret, commitCount, commitsBefore, commitsMade,
                   hasChanges, iterErr, pushAttempted, pushOutcome, stuckRun, counterBefore,
                   actualMade>>

\* History is rewritten during the pass (a reset or rebase): the count drops.
ExternalRewrite ==
    /\ pc = "running"
    /\ commitCount > 0
    /\ commitCount' = commitCount - 1
    /\ UNCHANGED <<aside, config, signals, pc, Iterations, Commits, ExitReason,
                   iterationsWithoutCommit, ret, dirty, commitsBefore, commitsMade,
                   hasChanges, iterErr, pushAttempted, pushOutcome, stuckRun, counterBefore,
                   actualMade>>

\* iteration.go 124-190 and runner.go 125-182: the subprocess has exited.
FinishIteration ==
    /\ pc = "running"
    /\ \E r \in {RunIterationResult(commitsBefore, commitCount, adapterErr, afterErr,
                                     filesErr, verifyFail) :
                      adapterErr \in BOOLEAN, afterErr \in BOOLEAN, filesErr \in BOOLEAN,
                      verifyFail \in {FALSE, verifySet}},
          queryErr \in BOOLEAN :
             AfterIteration(r.commits, r.err, queryErr, commitCount - commitsBefore)
    /\ UNCHANGED <<aside, config, signals, repo, Iterations, commitsBefore>>

\* runner.go 73-74: SIGINT or SIGTERM is delivered to sigChan.
Signal ==
    /\ pc # "done"
    /\ ~sigPending
    /\ ~cancelled
    /\ sigPending' = TRUE
    /\ UNCHANGED <<aside, config, repo, pc, Iterations, Commits, ExitReason,
                   iterationsWithoutCommit, ret, cancelled, cancelledAt, commitsBefore,
                   commitsMade, hasChanges, iterErr, pushAttempted, pushOutcome, stuckRun,
                   counterBefore, actualMade>>

\* runner.go 76-80: the goroutine receives the signal and cancels the context.
HandleSignal ==
    /\ pc # "done"
    /\ sigPending
    /\ sigPending' = FALSE
    /\ cancelled' = TRUE
    /\ cancelledAt' = IF pc = "running" THEN Iterations ELSE 0
    /\ UNCHANGED <<aside, config, repo, pc, Iterations, Commits, ExitReason,
                   iterationsWithoutCommit, ret, commitsBefore, commitsMade, hasChanges,
                   iterErr, pushAttempted, pushOutcome, stuckRun, counterBefore, actualMade>>

Next ==
    \/ ReturnInterrupt
    \/ ReturnMaxIterations
    \/ StartIteration
    \/ StartIterationFails
    \/ AgentCommit
    \/ AgentEdit
    \/ ExternalRewrite
    \/ FinishIteration
    \/ Signal
    \/ HandleSignal

Spec == Init /\ [][Next]_vars

\* -------------------------------------------------- RunIteration, one call

\* The outcomes the steps of one call can have.
IterationInputs ==
    {in \in [before : 0..MaxCommits, after : 0..MaxCommits, startErr : BOOLEAN,
             cmdErr : BOOLEAN, adapterErr : BOOLEAN, afterErr : BOOLEAN,
             filesErr : BOOLEAN, verify : BOOLEAN, verifyFail : BOOLEAN] :
        in.verifyFail => in.verify}

InitIteration ==
    /\ RunnerIdle
    /\ AdapterIdle
    /\ BuilderIdle
    /\ ExtrasIdle
    /\ itIn \in {<<in>> : in \in IterationInputs}
    /\ itOut = <<>>

\* iteration.go 35-191
CallRunIteration ==
    /\ itIn # <<>>
    /\ itOut = <<>>
    /\ itOut' = <<RunIteration(itIn[1])>>
    /\ UNCHANGED <<runner, adapter, builder, extras, itIn>>

NextIteration == CallRunIteration

SpecIteration == InitIteration /\ [][NextIteration]_vars

\* ------------------------------------------- adapters, one call of Process

\* part_013: the three event types.
ToolUse(name) == [kind |-> "ToolUse", Name |-> name, Input |-> ""]
AssistantMessage(text) == [kind |-> "AssistantMessage", Text |-> text]
Error(message) == [kind |-> "Error", Message |-> message]

\* iteration.go 88-97: the adapter RunIteration picks from the agent's ID.
Dialects == {"claude", "codex", "passthrough"}

\* Lines an agent can print, as scanner.Text() hands them over.
EmptyLine == ""
PlainLine == "not json"
NullLine == "null"
NumberLine == "5"
ResultLine == "{\"type\":\"result\"}"
ToolUseLine == "{\"type\":\"tool_use\",\"name\":\"Read\"}"
ToolUseNoNameLine == "{\"type\":\"tool_use\",\"name\":\"\"}"
AssistantLine == "{\"type\":\"assistant\",\"message\":{\"content\":[{\"type\":\"text\",\"text\":\"a\"},{\"type\":\"text\",\"text\":\"\"},{\"type\":\"tool_use\",\"text\":\"t\"},{\"type\":\"text\",\"text\":\"b\"}]}}"
DeltaLine == "{\"type\":\"stream_event\",\"event\":{\"delta\":{\"type\":\"text_delta\",\"text\":\"hi\"}}}"
DeltaEmptyLine == "{\"type\":\"stream_event\",\"event\":{\"delta\":{\"type\":\"text_delta\",\"text\":\"\"}}}"
DeltaOtherLine == "{\"type\":\"stream_event\",\"event\":{\"delta\":{\"type\":\"input_json_delta\",\"text\":\"x\"}}}"
SystemLine == "{\"type\":\"system\"}"
WrongShapeLine == "{\"type\":\"tool_use\",\"name\":\"Read\",\"message\":5}"
CodexErrorLine == "{\"type\":\"error\",\"error\":\"X\",\"tool\":\"T\",\"content\":\"Y\"}"
CodexToolTextLine == "{\"tool\":\"T\",\"text\":\"tx\",\"message\":\"m\"}"
CodexToolLine == "{\"tool\":\"T\"}"
CodexContentLine == "{\"content\":\"c\",\"text\":\"tx\",\"message\":\"m\"}"
CodexMessageLine == "{\"message\":\"m\"}"

Lines ==
    {EmptyLine, PlainLine, NullLine, NumberLine, ResultLine, ToolUseLine,
     ToolUseNoNameLine, AssistantLine, DeltaLine, DeltaEmptyLine, DeltaOtherLine,
     SystemLine, WrongShapeLine, CodexErrorLine, CodexToolTextLine, CodexToolLine,
     CodexContentLine, CodexMessageLine}

\* Whether the line is a JSON text at all.
ValidJSON(line) == line \notin {EmptyLine, PlainLine}

\* A ClaudeStreamEvent with every field at its zero value.
ClaudeZero ==
    [ok |-> TRUE, Type |-> "", Name |-> "", Content |-> <<>>,
     DeltaType |-> "", DeltaText |-> ""]

\* json.Unmarshal into a ClaudeStreamEvent: fields the struct does not name are
\* ignored, a value of the wrong JSON type for a named field is an error.
ClaudeUnmarshal(line) ==
    CASE line = NullLine -> ClaudeZero
      [] line = ResultLine -> [ClaudeZero EXCEPT !.Type = "result"]
      [] line = ToolUseLine -> [ClaudeZero EXCEPT !.Type = "tool_use", !.Name = "Read"]
      [] line = ToolUseNoNameLine -> [ClaudeZero EXCEPT !.Type = "tool_use"]
      [] line = AssistantLine ->
            [ClaudeZero EXCEPT !.Type = "assistant",
                               !.Content = << [Type |-> "text", Text |-> "a"],
                                              [Type |-> "text", Text |-> ""],
                                              [Type |-> "tool_use", Text |-> "t"],
                                              [Type |-> "text", Text |-> "b"] >>]
      [] line = DeltaLine ->
            [ClaudeZero EXCEPT !.Type = "stream_event", !.DeltaType = "text_delta",
                               !.DeltaText = "hi"]
      [] line = DeltaEmptyLine ->
            [ClaudeZero EXCEPT !.Type = "stream_event", !.DeltaType = "text_delta"]
      [] line = DeltaOtherLine ->
            [ClaudeZero EXCEPT !.Type = "stream_event", !.DeltaType = "input_json_delta",
                               !.DeltaText = "x"]
      [] line = SystemLine -> [ClaudeZero EXCEPT !.Type = "system"]
      [] line = CodexErrorLine -> [ClaudeZero EXCEPT !.Type = "error"]
      [] line = CodexToolLine -> ClaudeZero
      [] OTHER -> [ClaudeZero EXCEPT !.ok = FALSE]

\* A CodexEvent with every field at its zero value.
CodexZero ==
    [ok |-> TRUE, Type |-> "", Content |-> "", Tool |-> "", Text |-> "",
     Message |-> "", Error |-> ""]

\* json.Unmarshal into a CodexEvent.
CodexUnmarshal(line) ==
    CASE line = NullLine -> CodexZero
      [] line = ResultLine -> [CodexZero EXCEPT !.Type = "result"]
      [] line = ToolUseLine -> [CodexZero EXCEPT !.Type = "tool_use"]
      [] line = ToolUseNoNameLine -> [CodexZero EXCEPT !.Type = "tool_use"]
      [] line = DeltaLine -> [CodexZero EXCEPT !.Type = "stream_event"]
      [] line = DeltaEmptyLine -> [CodexZero EXCEPT !.Type = "stream_event"]
      [] line = DeltaOtherLine -> [CodexZero EXCEPT !.Type = "stream_event"]
      [] line = SystemLine -> [CodexZero EXCEPT !.Type = "system"]
      [] line = CodexErrorLine ->
            [CodexZero EXCEPT !.Type = "error", !.Error = "X", !.Tool = "T",
                              !.Content = "Y"]
      [] line = CodexToolTextLine ->
            [CodexZero EXCEPT !.Tool = "T", !.Text = "tx", !.Message = "m"]
      [] line = CodexToolLine -> [CodexZero EXCEPT !.Tool = "T"]
      [] line = CodexContentLine ->
            [CodexZero EXCEPT !.Content = "c", !.Text = "tx", !.Message = "m"]
      [] line = CodexMessageLine -> [CodexZero EXCEPT !.Message = "m"]
      [] OTHER -> [CodexZero EXCEPT !.ok = FALSE]

\* One AssistantMessage per content block, whatever its type and text.
TextBlocksUnfiltered(content) ==
    [i \in 1..Len(content) |-> AssistantMessage(content[i].Text)]

\* passthrough_test.go 243-249: the "assistant" case.
TextBlocks(content) ==
    LET sel == SelectSeq(content, LAMBDA c : c.Type = "text" /\ c.Text # "")
    IN  [i \in 1..Len(sel) |-> AssistantMessage(sel[i].Text)]

\* passthrough_test.go 227-269: the events of one line.
ClaudeLine(line) ==
    IF line = "" THEN <<>>
    ELSE LET event == ClaudeUnmarshal(line)
         IN  IF ~event.ok THEN <<>>
             ELSE CASE event.Type = "assistant" -> TextBlocks(event.Content)
                    [] event.Type = "tool_use" ->
                          IF event.Name # "" THEN <<ToolUse(event.Name)>> ELSE <<>>
                    [] event.Type = "result" -> <<>>
                    [] event.Type = "stream_event" ->
                          IF event.DeltaType = "text_delta" /\ event.DeltaText # ""
                              THEN <<AssistantMessage(event.DeltaText)>>
                              ELSE <<>>
                    [] OTHER -> <<>>

\* The text fields looked at in the opposite order.
CodexTextMessageFirst(event) ==
    IF event.Message # "" THEN event.Message
    ELSE IF event.Text # "" THEN event.Text
    ELSE IF event.Content # "" THEN event.Content
    ELSE ""

\* part_012 78-87
CodexText(event) ==
    IF event.Content # "" THEN event.Content
    ELSE IF event.Text # "" THEN event.Text
    ELSE IF event.Message # "" THEN event.Message
    ELSE ""

\* A line json.Unmarshal rejects being dropped.
CodexFallbackSkip(line) == <<>>

\* part_012 56-62
CodexFallback(line) == <<AssistantMessage(line)>>

\* part_012 49-91: the events of one line.
CodexLine(line) ==
    IF line = "" THEN <<>>
    ELSE LET event == CodexUnmarshal(line)
         IN  IF ~event.ok THEN CodexFallback(line)
             ELSE IF event.Error # "" THEN <<Error(event.Error)>>
             ELSE (IF event.Tool # "" THEN <<ToolUse(event.Tool)>> ELSE <<>>)
                  \o (IF CodexText(event) # ""
                          THEN <<AssistantMessage(CodexText(event))>>
                          ELSE <<>>)

\* Empty lines left out.
PassThroughLineSkipEmpty(line) ==
    IF line = "" THEN <<>> ELSE <<AssistantMessage(line)>>

\* part_011 307-312
PassThroughLine(line) == <<AssistantMessage(line)>>

LineEvents(d, line) ==
    CASE d = "claude" -> ClaudeLine(line)
      [] d = "codex" -> CodexLine(line)
      [] OTHER -> PassThroughLine(line)

\* A line whose decoding fails.
BadLine(d, line) ==
    CASE d = "claude" -> line # "" /\ ~ClaudeUnmarshal(line).ok
      [] d = "codex" -> line # "" /\ ~CodexUnmarshal(line).ok
      [] OTHER -> FALSE

\* A line whose decoding fails ending Process.
OnBadLineReturn(d) == "return"

\* passthrough_test.go 234-238, part_012 56-62: log, then continue.
OnBadLine(d) == "continue"

\* Process returning nil whatever the scanner says.
ProcessReturnNil(d, end) == "nil"

\* passthrough_test.go 271-275, part_012 93-95, part_011 314: scanner.Err().
ProcessReturn(d, end) == IF end = "error" THEN "error" ELSE "nil"

InitAdapter ==
    /\ RunnerIdle
    /\ IterationIdle
    /\ BuilderIdle
    /\ ExtrasIdle
    /\ dialect \in Dialects
    /\ consumed = <<>>
    /\ events = <<>>
    /\ lastEmitted = <<>>
    /\ scanEnd = "open"
    /\ procRet = "running"

\* scanner.Scan() returns true: one turn of the loop.
ScanLine ==
    /\ procRet = "running"
    /\ scanEnd = "open"
    /\ Len(consumed) < MaxLines
    /\ \E line \in Lines :
        /\ consumed' = Append(consumed, line)
        /\ lastEmitted' = LineEvents(dialect, line)
        /\ events' = events \o LineEvents(dialect, line)
        /\ procRet' = IF BadLine(dialect, line) /\ OnBadLine(dialect) = "return"
                          THEN "error" ELSE "running"
    /\ UNCHANGED <<runner, iteration, builder, extras, dialect, scanEnd>>

\* scanner.Scan() returns false at the end of the stream.
ScanEOF ==
    /\ procRet = "running"
    /\ scanEnd = "open"
    /\ scanEnd' = "eof"
    /\ UNCHANGED <<runner, iteration, builder, extras, dialect, consumed, events, lastEmitted,
                   procRet>>

\* scanner.Scan() returns false because the reader failed or a line outgrew the
\* scanner's buffer.
ScanError ==
    /\ procRet = "running"
    /\ scanEnd = "open"
    /\ scanEnd' = "error"
    /\ UNCHANGED <<runner, iteration, builder, extras, dialect, consumed, events, lastEmitted,
                   procRet>>

\* The statements after the loop.
ProcessReturns ==
    /\ procRet = "running"
    /\ scanEnd # "open"
    /\ procRet' = ProcessReturn(dialect, scanEnd)
    /\ UNCHANGED <<runner, iteration, builder, extras, dialect, consumed, events, lastEmitted,
                   scanEnd>>

NextAdapter ==
    \/ ScanLine
    \/ ScanEOF
    \/ ScanError
    \/ ProcessReturns

SpecAdapter == InitAdapter /\ [][NextAdapter]_vars

\* --------------------------------------------- BuildCommand, one call of it

\* The registered agents. Command is the string split at its blanks: words, and
\* " " for each run of white space.
ClaudeAgent ==
    [ID |-> "claude", Command |-> <<"claude">>,
     AutonomousFlags |-> <<"-p", "--dangerously-skip-permissions", "--verbose",
                           "--output-format", "stream-json">>,
     InteractiveFlags |-> <<"-p", "--verbose", "--output-format", "stream-json">>,
     ModelFlag |-> "--model", PromptStyle |-> "stream"]
CodexAgent ==
    [ID |-> "codex", Command |-> <<"codex", " ", "exec">>,
     AutonomousFlags |-> <<"--full-auto", "--json">>,
     InteractiveFlags |-> <<"--json">>,
     ModelFlag |-> "--model", PromptStyle |-> "arg"]
GeminiAgent ==
    [ID |-> "gemini", Command |-> <<"gemini">>,
     AutonomousFlags |-> <<"-p", "--yolo", "--output-format", "text">>,
     InteractiveFlags |-> <<"-p", "--output-format", "text">>,
     ModelFlag |-> "--model", PromptStyle |-> "arg"]
OpenCodeAgent ==
    [ID |-> "opencode", Command |-> <<"opencode">>,
     AutonomousFlags |-> <<"-p", "-q", "-f", "text">>,
     InteractiveFlags |-> <<"-p", "-f", "text">>,
     ModelFlag |-> "", PromptStyle |-> "arg"]
CursorAgent ==
    [ID |-> "cursor", Command |-> <<"cursor-agent">>,
     AutonomousFlags |-> <<"-p", "--force", "--output-format", "text">>,
     InteractiveFlags |-> <<>>,
     ModelFlag |-> "--model", PromptStyle |-> "arg"]
OllamaAgent ==
    [ID |-> "ollama", Command |-> <<"ollama", " ", "run">>,
     AutonomousFlags |-> <<>>,
     InteractiveFlags |-> <<>>,
     ModelFlag |-> "", PromptStyle |-> "ollama"]

Registry ==
    {ClaudeAgent, CodexAgent, GeminiAgent, OpenCodeAgent, CursorAgent, OllamaAgent}

\* Profiles no init() registers: one that takes its prompt on stdin, one whose
\* command is blank.
PipeAgent ==
    [ID |-> "pipe", Command |-> <<" ", "tool", " ">>,
     AutonomousFlags |-> <<"--auto">>,
     InteractiveFlags |-> <<"--ask">>,
     ModelFlag |-> "-m", PromptStyle |-> "pipe"]
BlankAgent ==
    [ID |-> "blank", Command |-> <<" ">>,
     AutonomousFlags |-> <<>>,
     InteractiveFlags |-> <<>>,
     ModelFlag |-> "", PromptStyle |-> "pipe"]

Profiles == Registry \cup {PipeAgent, BlankAgent}
Prompts == {"", "fix", "fix the bug"}
Models == {"", "m1"}

\* strings.Fields: the words, white space dropped.
Fields(command) == SelectSeq(command, LAMBDA t : t # " ")

\* The model flag appended even when no model is given.
ModelArgsAlways(a, model) ==
    IF a.ModelFlag # "" THEN <<a.ModelFlag, model>> ELSE <<>>

\* ollama.go 201-204
ModelArgs(a, model) ==
    IF model # "" /\ a.ModelFlag # "" THEN <<a.ModelFlag, model>> ELSE <<>>

\* ollama.go 206-223
PromptArgs(a, prompt, model) ==
    CASE a.PromptStyle = "ollama" ->
            (IF model # "" THEN <<model>> ELSE <<>>) \o <<prompt>>
      [] a.PromptStyle \in {"arg", "stream"} -> <<prompt>>
      [] a.PromptStyle = "pipe" -> <<>>
      [] OTHER -> <<>>

\* ollama.go 186-226
BuildCommand(a, prompt, model, autonomous) ==
    Fields(a.Command)
        \o (IF autonomous THEN a.AutonomousFlags ELSE a.InteractiveFlags)
        \o ModelArgs(a, model)
        \o PromptArgs(a, prompt, model)

\* Go slices: the heap is the sequence of the arrays allocated so far, a slice is
\* an array's index with a length and a capacity.
Alloc(h, capacity) ==
    [heap |-> Append(h, [i \in 1..capacity |-> ""]),
     slice |-> [arr |-> Len(h) + 1, len |-> 0, cap |-> capacity]]

Contents(h, sl) == SubSeq(h[sl.arr], 1, sl.len)

\* append(sl, elems...): in place while the capacity lasts, else into a new
\* array that gets a copy (its capacity here the length needed).
GoAppend(h, sl, elems) ==
    LET n == sl.len + Len(elems)
    IN  IF n <= sl.cap
        THEN [heap |-> [h EXCEPT ![sl.arr] =
                           [i \in 1..sl.cap |->
                               IF i > sl.len /\ i <= n THEN elems[i - sl.len] ELSE @[i]]],
              slice |-> [sl EXCEPT !.len = n]]
        ELSE [heap |-> Append(h, Contents(h, sl) \o elems),
              slice |-> [arr |-> Len(h) + 1, len |-> n, cap |-> n]]

\* A registered profile in memory: each flag list is a slice literal, an array
\* of its own with no spare capacity.
LoadProfile(a) ==
    [heap |-> <<a.AutonomousFlags, a.InteractiveFlags>>,
     profile |-> [a EXCEPT
                    !.AutonomousFlags = [arr |-> 1, len |-> Len(a.AutonomousFlags),
                                         cap |-> Len(a.AutonomousFlags)],
                    !.InteractiveFlags = [arr |-> 2, len |-> Len(a.InteractiveFlags),
                                          cap |-> Len(a.InteractiveFlags)]]]

\* args built on top of the profile's autonomous flags.
ArgsStartOnFlags(h, pr, n) ==
    [heap |-> h, slice |-> [pr.AutonomousFlags EXCEPT !.len = 0]]

\* ollama.go 189: args := make([]string, 0, len(cmdParts)+10)
ArgsStart(h, pr, n) == Alloc(h, n + 10)

\* ollama.go 186-226 on the heap: the arrays after the call and the slice returned.
BuildCommandOnHeap(h, pr, prompt, model, autonomous) ==
    LET cmdParts == Fields(pr.Command)
        s0 == ArgsStart(h, pr, Len(cmdParts))
        s1 == GoAppend(s0.heap, s0.slice, cmdParts)
        flags == Contents(s1.heap, IF autonomous THEN pr.AutonomousFlags
                                   ELSE pr.InteractiveFlags)
        s2 == GoAppend(s1.heap, s1.slice, flags)
        s3 == GoAppend(s2.heap, s2.slice, ModelArgs(pr, model))
    IN  GoAppend(s3.heap, s3.slice, PromptArgs(pr, prompt, model))

\* Every run asking for the autonomous flags.
AutonomousModeAlways(single) == TRUE

\* runner.go 122: the autonomous argument Run passes down.
AutonomousMode(single) == ~single

InitBuilder ==
    /\ RunnerIdle
    /\ IterationIdle
    /\ AdapterIdle
    /\ ExtrasIdle
    /\ bcIn \in {<<in>> : in \in [profile : Profiles, prompt : Prompts, model : Models,
                                  singleRun : BOOLEAN]}
    /\ bcOut = <<>>

\* runner.go 117-123, iteration.go 52
CallBuildCommand ==
    /\ bcIn # <<>>
    /\ bcOut = <<>>
    /\ LET in == bcIn[1]
           autonomous == AutonomousMode(in.singleRun)
           loaded == LoadProfile(in.profile)
           built == BuildCommandOnHeap(loaded.heap, loaded.profile, in.prompt, in.model,
                                       autonomous)
       IN  bcOut' = << [autonomous |-> autonomous,
                        argv |-> BuildCommand(in.profile, in.prompt, in.model,
                                              autonomous),
                        profile |-> loaded.profile,
                        heap |-> built.heap,
                        args |-> built.slice,
                        again |-> <<>>] >>
    /\ UNCHANGED <<runner, iteration, adapter, extras, bcIn>>

\* runner.go 117-123, iteration.go 52: the next pass calls it on the same profile.
CallBuildCommandAgain ==
    /\ bcOut # <<>>
    /\ bcOut[1].again = <<>>
    /\ LET in == bcIn[1]
           o == bcOut[1]
           built == BuildCommandOnHeap(o.heap, o.profile, in.prompt, in.model,
                                       o.autonomous)
       IN  bcOut' = << [o EXCEPT !.heap = built.heap, !.again = <<built.slice>>] >>
    /\ UNCHANGED <<runner, iteration, adapter, extras, bcIn>>

NextBuilder ==
    \/ CallBuildCommand
    \/ CallBuildCommandAgain

SpecBuilder == InitBuilder /\ [][NextBuilder]_vars

\* ------------------------------------------- package git, one call of a helper

\* The two-character codes `git status --porcelain` prints before a path.
StatusCodes ==
    { <<" ", "M">>, <<"M", " ">>, <<"M", "M">>, <<"?", "?">>, <<"A", " ">>,
      <<"A", "M">>, <<" ", "D">>, <<"D", " ">>, <<"R", " ">>, <<"U", "U">> }

\* One line of the output, "XY path", as its characters.
StatusLine(code) == code \o <<" ", "f">>

\* Every line with a staged side counted as staged only.
ClassifyLineExclusive(line) ==
    IF line = <<>> \/ Len(line) < 3 THEN [modified |-> 0, staged |-> 0, untracked |-> 0]
    ELSE IF SubSeq(line, 1, 2) = <<"?", "?">>
        THEN [modified |-> 0, staged |-> 0, untracked |-> 1]
    ELSE IF line[1] # " " /\ line[1] # "?"
        THEN [modified |-> 0, staged |-> 1, untracked |-> 0]
    ELSE [modified |-> IF line[2] # " " /\ line[2] # "?" THEN 1 ELSE 0,
          staged |-> 0, untracked |-> 0]

\* part_004 94-131: what one line adds to the three counts.
ClassifyLine(line) ==
    IF line = <<>> \/ Len(line) < 3 THEN [modified |-> 0, staged |-> 0, untracked |-> 0]
    ELSE IF SubSeq(line, 1, 2) = <<"?", "?">>
        THEN [modified |-> 0, staged |-> 0, untracked |-> 1]
    ELSE [modified |-> IF line[2] # " " /\ line[2] # "?" THEN 1 ELSE 0,
          staged |-> IF line[1] # " " /\ line[1] # "?" THEN 1 ELSE 0,
          untracked |-> 0]

RECURSIVE SumLines(_)
\* part_004 94-133: the loop over the lines.
SumLines(lines) ==
    IF lines = <<>> THEN [modified |-> 0, staged |-> 0, untracked |-> 0]
    ELSE LET rest == SumLines(Tail(lines))
             one == ClassifyLine(Head(lines))
         IN  [modified |-> rest.modified + one.modified,
              staged |-> rest.staged + one.staged,
              untracked |-> rest.untracked + one.untracked]

\* part_004 80-134: from what `git status --porcelain` did (failed, or printed
\* these lines).
GetChangedFiles(git) ==
    IF git.failed
        THEN [modified |-> 0, staged |-> 0, untracked |-> 0, err |-> TRUE]
        ELSE [modified |-> SumLines(git.lines).modified,
              staged |-> SumLines(git.lines).staged,
              untracked |-> SumLines(git.lines).untracked,
              err |-> FALSE]

\* What `git rev-list --count HEAD` does in a repository with n commits: with none
\* it exits non-zero and names the unknown revision on stderr.
GitRevList(n) ==
    IF n = 0 THEN [exit |-> 128, stdout |-> 0, stderr |-> "unknown revision"]
             ELSE [exit |-> 0, stdout |-> n, stderr |-> ""]

\* Every failure of git reported as an error.
CountCommitsStrict(git) ==
    IF git.exit # 0 THEN [count |-> 0, err |-> TRUE]
    ELSE [count |-> git.stdout, err |-> FALSE]

\* part_004 39-63
CountCommits(git) ==
    IF git.exit # 0
        THEN IF git.stderr \in {"does not have any commits yet", "bad revision",
                                "unknown revision"}
                 THEN [count |-> 0, err |-> FALSE]
                 ELSE [count |-> 0, err |-> TRUE]
        ELSE [count |-> git.stdout, err |-> FALSE]

\* Sequences of at most n elements of S.
SeqUpTo(S, n) == UNION {[1..k -> S] : k \in 0..n}

\* The calls looked at: GetChangedFiles on some status output, and the counts
\* around a pass whose subprocess adds commits to a repository.
GitInputs ==
    {[fn |-> "GetChangedFiles", failed |-> TRUE, lines |-> <<>>]}
    \cup {[fn |-> "GetChangedFiles", failed |-> FALSE, lines |-> ls] :
            ls \in SeqUpTo({StatusLine(c) : c \in StatusCodes}, MaxStatus)}
    \cup {[fn |-> "CountCommits", start |-> n, added |-> k] :
            n \in 0..MaxCommits, k \in 0..MaxCommits}

InitGit ==
    /\ RunnerIdle
    /\ IterationIdle
    /\ AdapterIdle
    /\ BuilderIdle
    /\ CliIdle
    /\ SupervisorIdle
    /\ MemoIdle
    /\ gitIn \in {<<in>> : in \in GitInputs}
    /\ gitOut = <<>>

\* iteration.go 152
CallGetChangedFiles ==
    /\ gitIn # <<>>
    /\ gitOut = <<>>
    /\ gitIn[1].fn = "GetChangedFiles"
    /\ gitOut' = <<GetChangedFiles(gitIn[1])>>
    /\ UNCHANGED <<runner, iteration, adapter, builder, cli, supervisor, memo, gitIn>>

\* iteration.go 46, 144-149, and one more count right after the pass.
CallCountCommits ==
    /\ gitIn # <<>>
    /\ gitOut = <<>>
    /\ gitIn[1].fn = "CountCommits"
    /\ LET before == CountCommits(GitRevList(gitIn[1].start))
           after == CountCommits(GitRevList(gitIn[1].start + gitIn[1].added))
           next == CountCommits(GitRevList(gitIn[1].start + gitIn[1].added))
       IN  gitOut' = << [before |-> before, after |-> after, next |-> next,
                         result |-> IF before.err THEN [commits |-> 0, err |-> "start"]
                                    ELSE RunIterationResult(before.count, after.count,
                                             FALSE, after.err, FALSE, FALSE)] >>
    /\ UNCHANGED <<runner, iteration, adapter, builder, cli, supervisor, memo, gitIn>>

NextGit ==
    \/ CallGetChangedFiles
    \/ CallCountCommits

SpecGit == InitGit /\ [][NextGit]_vars

\* --------------------------------------------- `gumloop run`, one invocation

\* What an invocation is given: the flags (--choo-choo, -1 when it has no value and
\* 0 when it is absent; --stuck-threshold; -p), the config file's
\* stuck_threshold, the prompt file, and what the checks find.
CliInputs ==
    [runChooChoo : -2..MaxIters, runStuck : {-1, 0, 1}, fileStuck : {-1, 0},
     runPrompt : {"", "fix"}, promptFile : {"absent", "unreadable", "text"},
     agentKnown : BOOLEAN, inWorkTree : BOOLEAN, dangerous : BOOLEAN,
     home : {"no", "declined", "confirmed"}]

\* run.go 169-242
loadRunConfig(in) ==
    [err |-> in.runPrompt = "" /\ in.promptFile = "unreadable",
     Prompt |-> IF in.runPrompt # "" THEN in.runPrompt
                ELSE IF in.promptFile = "text" THEN "fix" ELSE "",
     StuckThreshold |-> IF in.runStuck > 0 THEN in.runStuck ELSE in.fileStuck,
     ChooChoo |-> in.runChooChoo = -1 \/ in.runChooChoo > 0,
     MaxIterations |-> IF in.runChooChoo > 0 THEN in.runChooChoo ELSE 0]

\* validateRunConfig without the work tree check.
validateRunConfigNoGit(cfg, in) ==
    IF cfg.Prompt = "" THEN [kind |-> "config", code |-> ExitError]
    ELSE IF cfg.StuckThreshold < 0 THEN [kind |-> "config", code |-> ExitError]
    ELSE IF cfg.MaxIterations < 0 THEN [kind |-> "config", code |-> ExitError]
    ELSE IF ~in.agentKnown THEN [kind |-> "config", code |-> ExitError]
    ELSE IF in.dangerous THEN [kind |-> "safety", code |-> ExitSafety]
    ELSE IF cfg.ChooChoo /\ in.home = "declined"
        THEN [kind |-> "safety", code |-> ExitInterrupt]
    ELSE [kind |-> "ok", code |-> ExitSuccess]

\* run.go 245-298
validateRunConfig(cfg, in) ==
    IF cfg.Prompt = "" THEN [kind |-> "config", code |-> ExitError]
    ELSE IF cfg.StuckThreshold < 0 THEN [kind |-> "config", code |-> ExitError]
    ELSE IF cfg.MaxIterations < 0 THEN [kind |-> "config", code |-> ExitError]
    ELSE IF ~in.agentKnown THEN [kind |-> "config", code |-> ExitError]
    ELSE IF ~in.inWorkTree THEN [kind |-> "safety", code |-> ExitSafety]
    ELSE IF in.dangerous THEN [kind |-> "safety", code |-> ExitSafety]
    ELSE IF cfg.ChooChoo /\ in.home = "declined"
        THEN [kind |-> "safety", code |-> ExitInterrupt]
    ELSE [kind |-> "ok", code |-> ExitSuccess]

\* runner.go 85-182: what Run can return, with the metrics it leaves.
RunOutcomes(cfg) ==
    {o \in [code : {ExitSuccess, ExitMaxIterations, ExitStuck, ExitInterrupt},
            Iterations : 0..MaxPasses, Commits : 0..1] :
        /\ o.code = ExitMaxIterations =>
               (cfg.MaxIterations > 0 /\ o.Iterations = cfg.MaxIterations)
        /\ o.code \in {ExitSuccess, ExitStuck} => o.Iterations >= 1
        /\ cfg.MaxIterations > 0 => o.Iterations <= cfg.MaxIterations
        /\ ~cfg.ChooChoo => o.Iterations <= 1
        /\ o.Commits > 0 => o.Iterations >= 1}

\* The reason line left empty for an interrupted run.
formatExitReasonBlank(code) ==
    CASE code = ExitSuccess -> "Complete (no changes)"
      [] code = ExitError -> "Error"
      [] code = ExitSafety -> "Safety refusal"
      [] code = ExitMaxIterations -> "Max iterations reached"
      [] code = ExitStuck -> "Stuck (no commits)"
      [] OTHER -> ""

\* summary.go 118-159, with no custom reason
formatExitReason(code) ==
    CASE code = ExitSuccess -> "Complete (no changes)"
      [] code = ExitError -> "Error"
      [] code = ExitSafety -> "Safety refusal"
      [] code = ExitMaxIterations -> "Max iterations reached"
      [] code = ExitStuck -> "Stuck (no commits)"
      [] code = ExitInterrupt -> "Interrupted by user"
      [] OTHER -> "Unknown"

\* summary.go 47-115: the lines of the box that carry the run's figures.
RenderRunSummary(cfg) ==
    [Iterations |-> cfg.Iterations, Commits |-> cfg.Commits,
     Duration |-> cfg.Duration, Exit |-> formatExitReason(cfg.ExitCode)]

InitCli ==
    /\ RunnerIdle
    /\ IterationIdle
    /\ AdapterIdle
    /\ BuilderIdle
    /\ DetectorIdle
    /\ SupervisorIdle
    /\ MemoIdle
    /\ cliIn \in {<<in>> : in \in CliInputs}
    /\ cliPc = "load"
    /\ cliOut = [runEntered |-> FALSE, run |-> <<>>, summary |-> <<>>, exit |-> <<>>]

\* run.go 80-83: loadRunConfig fails and runRun returns the error.
LoadFails ==
    /\ cliIn # <<>>
    /\ cliPc = "load"
    /\ loadRunConfig(cliIn[1]).err
    /\ cliPc' = "exited"
    /\ cliOut' = [cliOut EXCEPT !.exit = <<[how |-> "return err", code |-> <<>>]>>]
    /\ UNCHANGED <<runner, iteration, adapter, builder, detector, supervisor, memo, cliIn>>

\* run.go 80-93: the configuration is loaded and validated.
Validate ==
    /\ cliIn # <<>>
    /\ cliPc = "load"
    /\ ~loadRunConfig(cliIn[1]).err
    /\ LET v == validateRunConfig(loadRunConfig(cliIn[1]), cliIn[1])
       IN  CASE v.kind = "ok" ->
                  /\ cliPc' = "agent"
                  /\ UNCHANGED cliOut
             [] v.kind = "safety" ->
                  /\ cliPc' = "exited"
                  /\ cliOut' = [cliOut EXCEPT !.exit = <<[how |-> "os.Exit", code |-> <<v.code>>]>>]
             [] OTHER ->
                  /\ cliPc' = "exited"
                  /\ cliOut' = [cliOut EXCEPT !.exit = <<[how |-> "return err", code |-> <<>>]>>]
    /\ UNCHANGED <<runner, iteration, adapter, builder, detector, supervisor, memo, cliIn>>

\* run.go 108-141: the agent validateRunConfig accepted is looked up, the runner
\* made and Run entered.
EnterRun ==
    /\ cliPc = "agent"
    /\ cliPc' = "run"
    /\ cliOut' = [cliOut EXCEPT !.runEntered = TRUE]
    /\ UNCHANGED <<runner, iteration, adapter, builder, detector, supervisor, memo, cliIn>>

\* run.go 141: Run returns.
RunReturns ==
    /\ cliPc = "run"
    /\ \E o \in RunOutcomes(loadRunConfig(cliIn[1])) :
          cliOut' = [cliOut EXCEPT !.run = <<o>>]
    /\ cliPc' = "summary"
    /\ UNCHANGED <<runner, iteration, adapter, builder, detector, supervisor, memo, cliIn>>

\* run.go 143-153
PrintSummary ==
    /\ cliPc = "summary"
    /\ LET o == cliOut.run[1]
       IN  cliOut' = [cliOut EXCEPT !.summary =
                         << RenderRunSummary([Iterations |-> o.Iterations,
                                              Commits |-> o.Commits,
                                              Duration |-> "elapsed",
                                              ExitCode |-> o.code]) >>]
    /\ cliPc' = "exit"
    /\ UNCHANGED <<runner, iteration, adapter, builder, detector, supervisor, memo, cliIn>>

\* run.go 156
ExitWithCode ==
    /\ cliPc = "exit"
    /\ cliOut' = [cliOut EXCEPT !.exit = <<[how |-> "os.Exit", code |-> <<cliOut.run[1].code>>]>>]
    /\ cliPc' = "exited"
    /\ UNCHANGED <<runner, iteration, adapter, builder, detector, supervisor, memo, cliIn>>

NextCli ==
    \/ LoadFails
    \/ Validate
    \/ EnterRun
    \/ RunReturns
    \/ PrintSummary
    \/ ExitWithCode

SpecCli == InitCli /\ [][NextCli]_vars

\* runRun is one goroutine that nothing blocks once Run has returned.
SpecCliFair == SpecCli /\ WF_vars(NextCli)

\* ------------------------------- RunIteration, the goroutines of one pass

\* What a Read on one of the agent's pipes gives (os/exec StdoutPipe, StderrPipe):
\* an error once cmd.Wait has closed the read ends, else the next line, else
\* end of file once the agent has exited, else it blocks.
ReadPipe(buf, exited, closed) ==
    IF closed THEN "closed"
    ELSE IF buf # <<>> THEN "line"
    ELSE IF exited THEN "eof"
    ELSE "block"

\* A receive that takes the newest event.
DequeueLast(buf) ==
    [event |-> buf[Len(buf)], rest |-> SubSeq(buf, 1, Len(buf) - 1)]

\* iteration.go 84, 110: a receive from the buffered channel.
Dequeue(buf) == [event |-> Head(buf), rest |-> Tail(buf)]

\* close(events) run while Process is still scanning.
CloseReadyEarly(pcv) == pcv \in {"scan", "close"}

\* iteration.go 103-104: close(events) is the statement after Process.
CloseReady(pcv) == pcv = "close"

\* What an agent can set out to do: write up to MaxOut lines, each to stdout or
\* to stderr, and exit.
AgentPlans ==
    UNION {[1..n -> {"stdout", "stderr"}] : n \in 0..MaxOut}

\* A write to a pipe returns once the pipe has room for it.
PipeHasRoom(buf) == Len(buf) < PipeCap

\* iteration.go 79-122: the agent has been started, no goroutine has run yet.
InitSupervisor ==
    /\ RunnerIdle
    /\ IterationIdle
    /\ AdapterIdle
    /\ BuilderIdle
    /\ DetectorIdle
    /\ CliIdle
    /\ MemoIdle
    /\ GoroutinesAtStart
    /\ agentPlan \in AgentPlans

\* The agent writes its next line of output to stdout or to stderr; the write
\* waits while that pipe is full.
AgentWrite ==
    /\ ~agentExited
    /\ agentPlan # <<>>
    /\ agentWritten < MaxOut
    /\ LET stream == Head(agentPlan)
       IN  /\ PipeHasRoom(IF stream = "stdout" THEN stdoutBuf ELSE stderrBuf)
           /\ stdoutBuf' = IF stream = "stdout" THEN Append(stdoutBuf, agentWritten + 1)
                           ELSE stdoutBuf
           /\ stderrBuf' = IF stream = "stderr" THEN Append(stderrBuf, agentWritten + 1)
                           ELSE stderrBuf
    /\ agentPlan' = Tail(agentPlan)
    /\ agentWritten' = agentWritten + 1
    /\ UNCHANGED <<runner, iteration, adapter, builder, detector, cli, memo, agentExited,
                   pipesClosed, reading, feedPc, held, readLines, processRet, chanBuf,
                   chanCloses, sentOnClosed, emitted, doneBuf, drainPc, received, mainPc>>

\* The agent has written all it wanted and exits, which closes its ends of the pipes.
AgentExit ==
    /\ ~agentExited
    /\ agentPlan = <<>>
    /\ agentExited' = TRUE
    /\ UNCHANGED <<runner, iteration, adapter, builder, detector, cli, memo, agentPlan,
                   agentWritten, stdoutBuf, stderrBuf, pipesClosed, reading, feedPc, held,
                   readLines, processRet, chanBuf, chanCloses, sentOnClosed, emitted,
                   doneBuf, drainPc, received, mainPc>>

\* iteration.go 125: cmd.Wait returns once the agent has exited, and closes the
\* read ends of StdoutPipe and StderrPipe.
CmdWait ==
    /\ mainPc = "wait"
    /\ agentExited
    /\ pipesClosed' = TRUE
    /\ mainPc' = "adapterDone"
    /\ UNCHANGED <<runner, iteration, adapter, builder, detector, cli, memo, agentPlan,
                   agentWritten, agentExited, stdoutBuf, stderrBuf, reading, feedPc, held,
                   readLines, processRet, chanBuf, chanCloses, sentOnClosed, emitted,
                   doneBuf, drainPc, received>>

\* iteration.go 128, 139-141: adapterErr := <-adapterDone, returning on an error.
AwaitAdapter ==
    /\ mainPc = "adapterDone"
    /\ doneBuf # <<>>
    /\ doneBuf' = <<>>
    /\ mainPc' = IF doneBuf[1] = "nil" THEN "post" ELSE "returned"
    /\ UNCHANGED <<runner, iteration, adapter, builder, detector, cli, memo, agentPlan,
                   agentWritten, agentExited, stdoutBuf, stderrBuf, pipesClosed, reading,
                   feedPc, held, readLines, processRet, chanBuf, chanCloses, sentOnClosed,
                   emitted, drainPc, received>>

\* iteration.go 144-190: the post-count and what follows it, to the return.
PostCount ==
    /\ mainPc = "post"
    /\ mainPc' = "returned"
    /\ UNCHANGED <<runner, iteration, adapter, builder, detector, cli, memo, agentPlan,
                   agentWritten, agentExited, stdoutBuf, stderrBuf, pipesClosed, reading,
                   feedPc, held, readLines, processRet, chanBuf, chanCloses, sentOnClosed,
                   emitted, doneBuf, drainPc, received>>

\* iteration.go 102-103: Process reads the next line from io.MultiReader(stdout,
\* stderr), stdout to its end before stderr.
FeedRead ==
    /\ feedPc = "scan"
    /\ LET buf == IF reading = "stdout" THEN stdoutBuf ELSE stderrBuf
           got == ReadPipe(buf, agentExited, pipesClosed)
       IN  /\ got # "block"
           /\ CASE got = "line" ->
                     /\ held' = <<Head(buf)>>
                     /\ readLines' = Append(readLines, Head(buf))
                     /\ stdoutBuf' = IF reading = "stdout" THEN Tail(buf) ELSE stdoutBuf
                     /\ stderrBuf' = IF reading = "stderr" THEN Tail(buf) ELSE stderrBuf
                     /\ feedPc' = "send"
                     /\ UNCHANGED <<reading, processRet>>
                [] got = "eof" /\ reading = "stdout" ->
                     /\ reading' = "stderr"
                     /\ UNCHANGED <<held, readLines, stdoutBuf, stderrBuf, feedPc, processRet>>
                [] got = "eof" /\ reading = "stderr" ->
                     /\ processRet' = "nil"
                     /\ feedPc' = "close"
                     /\ UNCHANGED <<held, readLines, stdoutBuf, stderrBuf, reading>>
                [] OTHER ->
                     /\ processRet' = "read error"
                     /\ feedPc' = "close"
                     /\ UNCHANGED <<held, readLines, stdoutBuf, stderrBuf, reading>>
    /\ UNCHANGED <<runner, iteration, adapter, builder, detector, cli, memo, agentPlan,
                   agentWritten, agentExited, pipesClosed, chanBuf, chanCloses,
                   sentOnClosed, emitted, doneBuf, drainPc, received, mainPc>>

\* The adapter sends the line's event; the send blocks while the channel is full.
FeedSend ==
    /\ feedPc = "send"
    /\ Len(chanBuf) < EventsCap
    /\ chanBuf' = Append(chanBuf, held[1])
    /\ emitted' = Append(emitted, held[1])
    /\ sentOnClosed' = (sentOnClosed \/ chanCloses > 0)
    /\ held' = <<>>
    /\ feedPc' = "scan"
    /\ UNCHANGED <<runner, iteration, adapter, builder, detector, cli, memo, agentPlan,
                   agentWritten, agentExited, stdoutBuf, stderrBuf, pipesClosed, reading,
                   readLines, processRet, chanCloses, doneBuf, drainPc, received, mainPc>>

\* iteration.go 104: close(events)
FeedClose ==
    /\ CloseReady(feedPc)
    /\ chanCloses' = chanCloses + 1
    /\ feedPc' = "signal"
    /\ UNCHANGED <<runner, iteration, adapter, builder, detector, cli, memo, agentPlan,
                   agentWritten, agentExited, stdoutBuf, stderrBuf, pipesClosed, reading,
                   held, readLines, processRet, chanBuf, sentOnClosed, emitted, doneBuf,
                   drainPc, received, mainPc>>

\* iteration.go 105: adapterDone <- err
FeedSignal ==
    /\ feedPc = "signal"
    /\ doneBuf' = <<processRet>>
    /\ feedPc' = "done"
    /\ UNCHANGED <<runner, iteration, adapter, builder, detector, cli, memo, agentPlan,
                   agentWritten, agentExited, stdoutBuf, stderrBuf, pipesClosed, reading,
                   held, readLines, processRet, chanBuf, chanCloses, sentOnClosed, emitted,
                   drainPc, received, mainPc>>

\* iteration.go 110-121: the display goroutine receives an event.
DrainReceive ==
    /\ drainPc = "recv"
    /\ chanBuf # <<>>
    /\ received' = Append(received, Dequeue(chanBuf).event)
    /\ chanBuf' = Dequeue(chanBuf).rest
    /\ UNCHANGED <<runner, iteration, adapter, builder, detector, cli, memo, agentPlan,
                   agentWritten, agentExited, stdoutBuf, stderrBuf, pipesClosed, reading,
                   feedPc, held, readLines, processRet, chanCloses, sentOnClosed, emitted,
                   doneBuf, drainPc, mainPc>>

\* iteration.go 110: the range loop ends on the closed, empty channel.
DrainEnd ==
    /\ drainPc = "recv"
    /\ chanBuf = <<>>
    /\ chanCloses > 0
    /\ drainPc' = "end"
    /\ UNCHANGED <<runner, iteration, adapter, builder, detector, cli, memo, agentPlan,
                   agentWritten, agentExited, stdoutBuf, stderrBuf, pipesClosed, reading,
                   feedPc, held, readLines, processRet, chanBuf, chanCloses, sentOnClosed,
                   emitted, doneBuf, received, mainPc>>

NextSupervisor ==
    \/ AgentWrite
    \/ AgentExit
    \/ CmdWait
    \/ AwaitAdapter
    \/ PostCount
    \/ FeedRead
    \/ FeedSend
    \/ FeedClose
    \/ FeedSignal
    \/ DrainReceive
    \/ DrainEnd

SpecSupervisor == InitSupervisor /\ [][NextSupervisor]_vars

\* The Go scheduler runs every goroutine that can take a step, and the system
\* runs the agent.
SpecSupervisorFair ==
    /\ SpecSupervisor
    /\ WF_vars(AgentWrite) /\ WF_vars(AgentExit)
    /\ WF_vars(FeedRead) /\ WF_vars(FeedSend) /\ WF_vars(FeedClose) /\ WF_vars(FeedSignal)
    /\ WF_vars(DrainReceive) /\ WF_vars(DrainEnd)
    /\ WF_vars(CmdWait) /\ WF_vars(AwaitAdapter) /\ WF_vars(PostCount)

\* ------------------------------------------------ session memory (--memory)

\* run.go 129-135: the fresh memory of a session (branch, agent and start time
\* are left out).
NewSessionMemory ==
    [Iterations |-> 0, Commits |-> 0, ExitReason |-> "", CommitLog |-> <<>>]

\* The commit records of one call, in the order they are handed over.
CommitRecords(call, n) == [i \in 1..n |-> <<call, i>>]

\* The first n elements of a sequence, all of it when it is shorter.
FirstN(seq, n) == SubSeq(seq, 1, IF Len(seq) < n THEN Len(seq) ELSE n)

\* RecordIteration with the new commits put behind the old ones.
RecordIterationAppend(m, made, newCommits) ==
    [m EXCEPT !.Iterations = @ + 1,
              !.Commits = @ + made,
              !.CommitLog = FirstN(@ \o newCommits, MaxCommitLog)]

\* part_017 112-123
RecordIteration(m, made, newCommits) ==
    [m EXCEPT !.Iterations = @ + 1,
              !.Commits = @ + made,
              !.CommitLog = FirstN(newCommits \o @, MaxCommitLog)]

\* part_017 125-127
SetExit(m, reason) == [m EXCEPT !.ExitReason = reason]

\* part_017 60-80: Save leaves the file as it was when it fails.
Save(file, m, ok) == IF ok THEN <<m>> ELSE file

\* The arguments tried for a call of RecordIteration.
MadeArgs == {-1, 0, 2, MaxCommitLog + 5}
BatchSizes == {0, 2, MaxCommitLog - 5, MaxCommitLog + 5}

InitMemory ==
    /\ RunnerIdle
    /\ IterationIdle
    /\ AdapterIdle
    /\ BuilderIdle
    /\ DetectorIdle
    /\ CliIdle
    /\ SupervisorIdle
    /\ session = <<>>
    /\ memory = <<NewSessionMemory>>
    /\ recorded = <<>>

\* part_017 112-123: one call, with any count and any batch of commit records.
CallRecordIteration ==
    /\ memory # <<>>
    /\ session = <<>>
    /\ Len(recorded) < MaxCalls
    /\ \E made \in MadeArgs, n \in BatchSizes :
          LET newCommits == CommitRecords(Len(recorded) + 1, n)
          IN  /\ memory' = <<RecordIteration(memory[1], made, newCommits)>>
              /\ recorded' = Append(recorded, [commitsMade |-> made,
                                               newCommits |-> newCommits])
    /\ UNCHANGED <<runner, iteration, adapter, builder, detector, cli, supervisor, session>>

NextMemory == CallRecordIteration

SpecMemory == InitMemory /\ [][NextMemory]_vars

\* runner.go 190-215 with recordMemory skipped for a pass without commits.
recordMemoryOnCommitsOnly(m, made, logOk, pass) ==
    IF made > 0
        THEN RecordIteration(m, made, IF logOk THEN CommitRecords(pass, made) ELSE <<>>)
        ELSE m

\* runner.go 190-209: the commits of the pass are looked up with
\* git.GetRecentCommits when there are any, and none are recorded when that
\* fails; then RecordIteration.
recordMemory(m, made, logOk, pass) ==
    RecordIteration(m, made,
                    IF made > 0 /\ logOk THEN CommitRecords(pass, made) ELSE <<>>)

\* A session: how the run was asked for.
SessionConfigs ==
    {c \in [singleRun : BOOLEAN, maxIters : 0..MaxIters, StuckThreshold : 0..MaxThreshold] :
        c.singleRun => c.maxIters = 0}

\* runner.go 55-65 and run.go 129-135: the runner with a fresh memory.
InitSession ==
    /\ RunnerIdle
    /\ IterationIdle
    /\ AdapterIdle
    /\ BuilderIdle
    /\ DetectorIdle
    /\ CliIdle
    /\ SupervisorIdle
    /\ memory = <<NewSessionMemory>>
    /\ recorded = <<>>
    /\ session \in {<<[config |-> c, pc |-> "boundary", Iterations |-> 0, Commits |-> 0,
                       ExitReason |-> "", iterationsWithoutCommit |-> 0, ret |-> <<>>,
                       file |-> <<>>, lastSave |-> "none"]>> : c \in SessionConfigs}

\* runner.go 85-98, 219-228: a boundary check ends the run; saveMemory.
SessionBoundaryReturn ==
    /\ session # <<>>
    /\ session[1].pc = "boundary"
    /\ \E isCancelled, saveOk \in BOOLEAN :
          LET s == session[1]
              check == BoundaryCheck(isCancelled, s.Iterations, s.config.maxIters)
              code == IF check = "interrupt" THEN ExitInterrupt ELSE ExitMaxIterations
              m == SetExit(memory[1], ExitReasonString(code))
          IN  /\ check \in {"interrupt", "max"}
              /\ memory' = <<m>>
              /\ session' = << [s EXCEPT !.ExitReason = ExitReasonString(code),
                                         !.ret = <<code>>,
                                         !.pc = "done",
                                         !.file = Save(s.file, m, saveOk),
                                         !.lastSave = IF saveOk THEN "ok" ELSE "failed"] >>
    /\ UNCHANGED <<runner, iteration, adapter, builder, detector, cli, supervisor, recorded>>

\* runner.go 101-182: one pass with what RunIteration and the change query
\* report, recordMemory after it, and saveMemory when the run ends there.
SessionPass ==
    /\ session # <<>>
    /\ session[1].pc = "boundary"
    /\ session[1].Iterations < MaxPasses
    /\ BoundaryCheck(FALSE, session[1].Iterations, session[1].config.maxIters) = "run"
    /\ \E made \in -1..MaxCommits, hasCh, logOk, saveOk, exitSaveOk \in BOOLEAN :
          LET s == session[1]
              pass == s.Iterations + 1
              m1 == recordMemory(memory[1], made, logOk, pass)
              f1 == Save(s.file, m1, saveOk)
              exit == Evaluate(hasCh, made, s.iterationsWithoutCommit,
                               s.config.StuckThreshold, s.config.singleRun)
              m2 == IF exit = <<>> THEN m1 ELSE SetExit(m1, ExitReasonString(exit[1]))
              last == IF exit = <<>> THEN saveOk ELSE exitSaveOk
          IN  /\ memory' = <<m2>>
              /\ session' = << [s EXCEPT
                    !.Iterations = pass,
                    !.Commits = @ + made,
                    !.iterationsWithoutCommit =
                        IF IsComplete(hasCh, made) THEN @ ELSE StuckCount(hasCh, made, @),
                    !.ExitReason = IF exit = <<>> THEN @ ELSE ExitReasonString(exit[1]),
                    !.ret = exit,
                    !.pc = IF exit = <<>> THEN "boundary" ELSE "done",
                    !.file = IF exit = <<>> THEN f1 ELSE Save(f1, m2, exitSaveOk),
                    !.lastSave = IF last THEN "ok" ELSE "failed"] >>
    /\ UNCHANGED <<runner, iteration, adapter, builder, detector, cli, supervisor, recorded>>

NextSession ==
    \/ SessionBoundaryReturn
    \/ SessionPass

SpecSession == InitSession /\ [][NextSession]_vars

\* ----------------------------------------------------------------- claims

\* C1: in looping mode with a stuck threshold T >= 1, once T passes in a row have
\* each ended with uncommitted changes reported and commitsMade = 0, Run has
\* returned Stuck (4) right after the T-th of them and no further pass has run.
C1_StuckAfterThreshold ==
    (~singleRun /\ StuckThreshold >= 1 /\ stuckRun >= StuckThreshold) =>
        /\ pc = "done"
        /\ ret = <<ExitStuck>>
        /\ stuckRun = StuckThreshold

C1_Witness ==
    /\ ~singleRun
    /\ StuckThreshold = 2
    /\ stuckRun = 2
    /\ Iterations = 2
    /\ ret = <<ExitStuck>>

C3_InterruptInFlightEndsInterrupted ==
    (cancelledAt > 0 /\ pc = "done") => ret = <<ExitInterrupt>>

\* C3 as amended: when the context is cancelled while a pass is in flight, that
\* pass is the last one; the run ends with Interrupted at the next boundary unless
\* the evaluation of that pass has already ended it with Success or Stuck.
C3_InterruptInFlightLastPass ==
    /\ [](cancelledAt > 0 =>
            /\ Iterations = cancelledAt
            /\ pc = "boundary" =>
                   BoundaryCheck(cancelled, Iterations, maxIters) = "interrupt"
            /\ pc = "done" =>
                   \/ ret = <<ExitInterrupt>>
                   \/ /\ ret \in {<<ExitSuccess>>, <<ExitStuck>>}
                      /\ ret = Evaluate(hasChanges, commitsMade, counterBefore,
                                        StuckThreshold, singleRun))
    \* the cancellation itself leaves the pass in flight and the repository alone
    /\ [][(~cancelled /\ cancelled') => (pc' = pc /\ UNCHANGED <<repo, ret>>)]_vars

C3_Witness ==
    /\ cancelledAt > 0
    /\ pc = "done"
    /\ commitsMade > 0
    /\ ret = <<ExitInterrupt>>

\* C4: in looping mode a pass that failed with an iteration error does not end the
\* run by itself: when the run ends at such a pass, the same pass measured without
\* the error (the commits really made) would have ended it too.
C4_ErroredPassNeverEndsRun ==
    (~singleRun /\ pc = "done" /\ iterErr # "none"
        /\ ret \in {<<ExitSuccess>>, <<ExitStuck>>}) =>
        Evaluate(hasChanges, actualMade, counterBefore, StuckThreshold, FALSE) # <<>>

\* C5: at a boundary where the interrupt has been observed the next step of Run is
\* the return of Interrupted (130), with no new pass, whatever the cap says.
C5_InterruptCheckedFirst ==
    [][(pc = "boundary" /\ cancelled) =>
          (pc' = "done" /\ ret' = <<ExitInterrupt>> /\ Iterations' = Iterations)]_vars

C5_Witness ==
    /\ ret = <<ExitInterrupt>>
    /\ maxIters > 0
    /\ Iterations >= maxIters

\* C6: with a cap N > 0 the number of passes started never exceeds N, and
\* MaxIterationsReached (3) is returned only with a cap set and exactly N passes run.
C6_CapBoundsPasses ==
    /\ maxIters > 0 => Iterations <= maxIters
    /\ ret = <<ExitMaxIterations>> => (maxIters > 0 /\ Iterations = maxIters)

C6_Witness ==
    /\ ret = <<ExitMaxIterations>>
    /\ maxIters = 2
    /\ Iterations = 2

\* C7: in looping mode Success is returned only after a pass for which the change
\* query reported no uncommitted changes and commitsMade = 0, and a pass that ends
\* so always makes Run return Success at once.
C7_SuccessIffComplete ==
    ~singleRun =>
        /\ ret = <<ExitSuccess>> => (~hasChanges /\ commitsMade = 0)
        /\ (Iterations > 0 /\ pc # "running" /\ ~hasChanges /\ commitsMade = 0) =>
               (pc = "done" /\ ret = <<ExitSuccess>>)

C7_Witness ==
    /\ ~singleRun
    /\ Iterations = 2
    /\ ~dirty
    /\ iterErr = "none"
    /\ ret = <<ExitSuccess>>

\* C8: after a pass that reported commitsMade > 0 the stuck counter is 0, whatever
\* it was before that pass, and it is still 0 when the next pass is under way.
C8_ResetOnCommit ==
    commitsMade > 0 => iterationsWithoutCommit = 0

C8_Witness ==
    /\ pc = "running"
    /\ Iterations >= 2
    /\ commitsMade > 0
    /\ counterBefore > 0
    /\ iterationsWithoutCommit = 0

C9_ReasonText ==
    [c \in {ExitSuccess, ExitMaxIterations, ExitStuck, ExitInterrupt} |->
        CASE c = ExitSuccess -> "Complete (no changes)"
          [] c = ExitMaxIterations -> "Max iterations reached"
          [] c = ExitStuck -> "Stuck (no commits)"
          [] c = ExitInterrupt -> "Interrupted"]

\* C9: ExitReason is empty until Run returns; it is then the reason string of the
\* returned code, one of 0, 3, 4, 130; once it is set it is never set again and no
\* pass starts, Iterations and Commits staying as they are.
C9_OneExitReason ==
    /\ [](/\ pc # "done" => (ExitReason = "" /\ ret = <<>>)
          /\ pc = "done" =>
                 /\ ret \in {<<ExitSuccess>>, <<ExitMaxIterations>>, <<ExitStuck>>,
                             <<ExitInterrupt>>}
                 /\ ExitReason = C9_ReasonText[ret[1]])
    /\ [][ExitReason # "" =>
             UNCHANGED <<ExitReason, ret, pc, Iterations, Commits>>]_vars

C9_Witness ==
    /\ pc = "done"
    /\ ret = <<ExitStuck>>
    /\ ExitReason = "Stuck (no commits)"
    /\ Iterations = 2

\* C10: a negative commitsMade is never folded into Metrics.Commits, so
\* Metrics.Commits never decreases.
C10_CommitsNeverDecrease ==
    [][Commits' >= Commits]_vars

\* C11: a non-zero exit of the agent never makes RunIteration return an error: the
\* call goes on to the second count, commitsMade, the file counts and, when one is
\* configured, the verification command, and fails only where one of those fails.
C11_AgentExitIsNoError ==
    (itOut # <<>> /\ itIn[1].cmdErr /\ ~itIn[1].startErr) =>
        LET i == itIn[1]
            o == itOut[1]
        IN  /\ o.err # "agent_exit"
            /\ (o.err = "none") =
                   ~(i.adapterErr \/ i.afterErr \/ i.filesErr \/ i.verifyFail)
            /\ ~i.adapterErr => o.postCounted
            /\ ~(i.adapterErr \/ i.afterErr) =>
                   (o.filesCounted /\ o.commits = i.after - i.before)
            /\ ~(i.adapterErr \/ i.afterErr \/ i.filesErr) => o.verifyRan = i.verify

C11_Witness ==
    /\ itOut # <<>>
    /\ itIn[1].cmdErr
    /\ itOut[1].err = "none"
    /\ itOut[1].commits = 1
    /\ itOut[1].verifyRan

\* C12: when the verification command ran and exited non-zero, RunIteration
\* returns an error together with commitsMade = post-count - pre-count.
C12_VerifyFailureKeepsCommits ==
    (itOut # <<>> /\ itOut[1].verifyRan /\ itIn[1].verifyFail) =>
        /\ itOut[1].err = "verify"
        /\ itOut[1].commits = itIn[1].after - itIn[1].before

C12_Witness ==
    /\ itOut # <<>>
    /\ itIn[1].verifyFail
    /\ itOut[1].err = "verify"
    /\ itOut[1].commits = 1

C15_ClaudePerLine ==
    /\ [](  (dialect = "claude" /\ consumed # <<>>) =>
            LET line == consumed[Len(consumed)]
                e == ClaudeUnmarshal(line)
                texts == SelectSeq(e.Content, LAMBDA c : c.Type = "text" /\ c.Text # "")
            IN  /\ (line = "" \/ ~e.ok) => lastEmitted = <<>>
                /\ (line # "" /\ e.ok) =>
                    /\ e.Type = "result" => lastEmitted = <<>>
                    /\ e.Type \notin {"assistant", "tool_use", "result", "stream_event"}
                           => lastEmitted = <<>>
                    /\ e.Type = "tool_use" =>
                           lastEmitted = IF e.Name # "" THEN <<ToolUse(e.Name)>> ELSE <<>>
                    /\ e.Type = "assistant" =>
                           /\ Len(lastEmitted) = Len(texts)
                           /\ \A i \in 1..Len(texts) :
                                  lastEmitted[i] = AssistantMessage(texts[i].Text)
                    /\ (e.Type = "stream_event" /\ e.DeltaType = "text_delta"
                            /\ e.DeltaText # "")
                           => lastEmitted = <<AssistantMessage(e.DeltaText)>>)
    /\ [][(dialect = "claude" /\ consumed' # consumed) =>
              events' = events \o lastEmitted']_vars

C15_Witness ==
    /\ dialect = "claude"
    /\ consumed = <<ResultLine, AssistantLine>>
    /\ events = <<AssistantMessage("a"), AssistantMessage("b")>>

\* C16: Codex adapter, for a line that decodes: a non-empty error gives exactly one
\* Error event and nothing else; otherwise a ToolUse if tool is non-empty, then at
\* most one AssistantMessage with the first non-empty of content, text, message.
C16_CodexPriority ==
    (dialect = "codex" /\ consumed # <<>> /\ consumed[Len(consumed)] # ""
        /\ CodexUnmarshal(consumed[Len(consumed)]).ok) =>
        LET e == CodexUnmarshal(consumed[Len(consumed)])
            text == IF e.Content # "" THEN e.Content
                    ELSE IF e.Text # "" THEN e.Text ELSE e.Message
            tool == IF e.Tool # "" THEN <<ToolUse(e.Tool)>> ELSE <<>>
            msg == IF text # "" THEN <<AssistantMessage(text)>> ELSE <<>>
        IN  /\ e.Error # "" => lastEmitted = <<Error(e.Error)>>
            /\ e.Error = "" => lastEmitted = tool \o msg
            /\ Len(lastEmitted) <= 2

C16_Witness ==
    /\ dialect = "codex"
    /\ consumed = <<CodexErrorLine, CodexToolTextLine>>
    /\ events = <<Error("X"), ToolUse("T"), AssistantMessage("tx")>>

\* C17 as stated: Codex adapter, every line that is not JSON is sent verbatim as
\* one AssistantMessage.
C17_EveryUnparseableLineEmitted ==
    (dialect = "codex" /\ consumed # <<>> /\ ~ValidJSON(consumed[Len(consumed)])) =>
        lastEmitted = <<AssistantMessage(consumed[Len(consumed)])>>

\* C17 amended: Codex adapter, every non-empty line that json.Unmarshal rejects is
\* sent verbatim as exactly one AssistantMessage; an empty line is skipped with no
\* event.
C17_NonEmptyUnparseableLineEmitted ==
    (dialect = "codex" /\ consumed # <<>>) =>
        LET line == consumed[Len(consumed)]
        IN  /\ (line # "" /\ ~CodexUnmarshal(line).ok) =>
                   lastEmitted = <<AssistantMessage(line)>>
            /\ line = "" => lastEmitted = <<>>

C17_Witness ==
    /\ dialect = "codex"
    /\ consumed = <<EmptyLine, PlainLine>>
    /\ events = <<AssistantMessage(PlainLine)>>

\* C18: pass-through adapter, the events are one AssistantMessage per line read,
\* with the line's text as it is, in the order read.
C18_PassThroughVerbatim ==
    dialect = "passthrough" =>
        events = [i \in 1..Len(consumed) |-> AssistantMessage(consumed[i])]

C18_Witness ==
    /\ dialect = "passthrough"
    /\ consumed = <<EmptyLine, ResultLine>>
    /\ Len(events) = 2

\* C19: BuildCommand's argv is the words of the base command, then the autonomous
\* flags if autonomous else the interactive flags, then (ModelFlag, model) iff the
\* model is non-empty and the profile has a model flag, then the prompt part: the
\* prompt for the arg and stream styles, the model (if non-empty) and the prompt for
\* the ollama style, nothing for the pipe style.
C19_ArgvLayout ==
    bcOut # <<>> =>
        LET a == bcIn[1].profile
            prompt == bcIn[1].prompt
            model == bcIn[1].model
            base == SelectSeq(a.Command, LAMBDA t : t # " ")
            flags == IF bcOut[1].autonomous THEN a.AutonomousFlags
                                            ELSE a.InteractiveFlags
            modelPart == IF model # "" /\ a.ModelFlag # ""
                             THEN <<a.ModelFlag, model>> ELSE <<>>
            promptPart == CASE a.PromptStyle \in {"arg", "stream"} -> <<prompt>>
                            [] a.PromptStyle = "ollama" ->
                                  IF model # "" THEN <<model, prompt>> ELSE <<prompt>>
                            [] a.PromptStyle = "pipe" -> <<>>
        IN  bcOut[1].argv = base \o flags \o modelPart \o promptPart

C19_Witness ==
    /\ bcOut # <<>>
    /\ bcIn[1].profile = CodexAgent
    /\ bcOut[1].argv = <<"codex", "exec", "--full-auto", "--json", "--model", "m1",
                         "fix the bug">>

\* C20: for every registered agent the argv built with autonomous = false holds
\* none of the auto-approval flags, and a single-pass run builds with
\* autonomous = false.
C20_InteractiveNeverAutoApproves ==
    (bcOut # <<>> /\ bcIn[1].profile \in Registry) =>
        LET approval == {"--dangerously-skip-permissions", "--full-auto", "--yolo",
                         "--force"}
            argv == bcOut[1].argv
        IN  /\ bcIn[1].singleRun => ~bcOut[1].autonomous
            /\ ~bcOut[1].autonomous =>
                   \A i \in 1..Len(argv) : argv[i] \notin approval
            /\ bcIn[1].singleRun =>
                   \A i \in 1..Len(argv) : argv[i] \notin approval

C20_Witness ==
    /\ bcOut # <<>>
    /\ bcIn[1].profile = ClaudeAgent
    /\ bcIn[1].singleRun
    /\ bcOut[1].argv = <<"claude", "-p", "--verbose", "--output-format", "stream-json",
                         "--model", "m1", "fix">>

\* C21: GetChangedFiles counts each status line by its two-character code: " M"
\* adds to modified only, "M " to staged only, "MM" to both, "??" to untracked
\* only, and the three counts are the sums over the lines.
C21_StatusCodesCounted ==
    (gitOut # <<>> /\ gitIn[1].fn = "GetChangedFiles" /\ ~gitIn[1].failed) =>
        LET lines == gitIn[1].lines
            out == gitOut[1]
            N(codes) == Cardinality({i \in 1..Len(lines) : SubSeq(lines[i], 1, 2) \in codes})
            alone(code) == lines = <<StatusLine(code)>>
        IN  /\ alone(<<" ", "M">>) =>
                   (out.modified = 1 /\ out.staged = 0 /\ out.untracked = 0)
            /\ alone(<<"M", " ">>) =>
                   (out.modified = 0 /\ out.staged = 1 /\ out.untracked = 0)
            /\ alone(<<"M", "M">>) =>
                   (out.modified = 1 /\ out.staged = 1 /\ out.untracked = 0)
            /\ alone(<<"?", "?">>) =>
                   (out.modified = 0 /\ out.staged = 0 /\ out.untracked = 1)
            /\ out.untracked = N({<<"?", "?">>})
            /\ out.staged = N({c \in StatusCodes : c[1] \notin {" ", "?"}})
            /\ out.modified = N({c \in StatusCodes : c[2] \notin {" ", "?"}})
            /\ ~out.err

C21_Witness ==
    /\ gitOut # <<>>
    /\ gitIn[1].fn = "GetChangedFiles"
    /\ gitIn[1].lines = <<StatusLine(<<"M", "M">>), StatusLine(<<"?", "?">>)>>
    /\ gitOut[1] = [modified |-> 1, staged |-> 1, untracked |-> 1, err |-> FALSE]

\* C22: for a pass that completes without error, commitsMade is the number of
\* commits the subprocess added between the two counts, a count right after the
\* pass returns pre-count + commitsMade, and a repository with no commits counts
\* as 0 without an error.
C22_CommitsMadeIsCountDifference ==
    (gitOut # <<>> /\ gitIn[1].fn = "CountCommits") =>
        LET in == gitIn[1]
            out == gitOut[1]
        IN  /\ in.start = 0 => (out.before.count = 0 /\ ~out.before.err)
            /\ out.result.err = "none" =>
                   /\ out.result.commits = in.added
                   /\ ~out.next.err
                   /\ out.next.count = out.before.count + out.result.commits

C22_Witness ==
    /\ gitOut # <<>>
    /\ gitIn[1].fn = "CountCommits"
    /\ gitIn[1].start = 0
    /\ gitIn[1].added = 1
    /\ gitOut[1].result = [commits |-> 1, err |-> "none"]
    /\ gitOut[1].next.count = 1

\* C23: once Run has returned, whatever code it returned, the summary with the
\* run's iteration count, commit count, duration and a terminal reason is
\* printed, the process exits only after it, and it does exit.
C23_SummaryBeforeExit ==
    /\ [](cliOut.runEntered /\ cliOut.exit # <<>> =>
            /\ cliOut.run # <<>>
            /\ cliOut.exit[1].how = "os.Exit"
            /\ cliOut.exit[1].code = <<cliOut.run[1].code>>
            /\ cliOut.summary # <<>>
            /\ cliOut.summary[1].Iterations = cliOut.run[1].Iterations
            /\ cliOut.summary[1].Commits = cliOut.run[1].Commits
            /\ cliOut.summary[1].Duration = "elapsed"
            /\ cliOut.summary[1].Exit \notin {"", "Unknown"})
    /\ (cliOut.run # <<>>) ~> (cliPc = "exited" /\ cliOut.summary # <<>>)

C23_Witness ==
    /\ cliPc = "exited"
    /\ cliOut.run # <<>>
    /\ cliOut.run[1].code = ExitInterrupt
    /\ cliOut.summary # <<>>
    /\ cliOut.summary[1].Exit = "Interrupted by user"

\* C24: when the configuration is refused, Run is never entered, the invocation
\* ends there, and a directory that is no work tree or is dangerous ends it
\* with exit code 2.
C24_RefusedBeforeRun ==
    cliIn # <<>> /\ ~loadRunConfig(cliIn[1]).err =>
        LET cfg == loadRunConfig(cliIn[1])
            in == cliIn[1]
            configError == \/ cfg.Prompt = ""
                           \/ cfg.StuckThreshold < 0
                           \/ cfg.MaxIterations < 0
                           \/ ~in.agentKnown
            refusal == ~in.inWorkTree \/ in.dangerous
        IN  /\ configError \/ refusal => ~cliOut.runEntered /\ cliOut.run = <<>>
            /\ configError /\ cliPc = "exited" => cliOut.exit[1].how = "return err"
            /\ ~configError /\ refusal /\ cliPc = "exited" =>
                  cliOut.exit = <<[how |-> "os.Exit", code |-> <<ExitSafety>>]>>

C24_Witness ==
    /\ cliPc = "exited"
    /\ ~cliIn[1].inWorkTree
    /\ cliOut.exit = <<[how |-> "os.Exit", code |-> <<ExitSafety>>]>>
    /\ ~cliOut.runEntered

\* C25: at the end of a pass a push is attempted exactly when auto-push is on and
\* the pass made commits, and whatever the push or the branch lookup gives, the
\* exit taken, the stuck counter and the Metrics are what the pass alone decides.
C25_PushNeverAltersOutcome ==
    [][(\/ pc = "running" /\ pc' # "running"
        \/ pc = "boundary" /\ Iterations' # Iterations /\ pc' # "running") =>
          /\ pushAttempted' = (AutoPush /\ commitsMade' > 0)
          /\ (pushOutcome' # "none") = pushAttempted'
          /\ ret' = Evaluate(hasChanges', commitsMade', iterationsWithoutCommit,
                             StuckThreshold, singleRun)
          /\ pc' = IF ret' = <<>> THEN "boundary" ELSE "done"
          /\ iterationsWithoutCommit' =
                 IF IsComplete(hasChanges', commitsMade') THEN iterationsWithoutCommit
                 ELSE StuckCount(hasChanges', commitsMade', iterationsWithoutCommit)
          /\ Commits' = Commits + commitsMade'
          /\ Iterations' \in {Iterations, Iterations + 1}
          /\ ExitReason' = IF ret' = <<>> THEN ExitReason
                           ELSE ExitReasonString(ret'[1])]_vars

C25_Witness ==
    /\ pushAttempted
    /\ pushOutcome = "push_failed"
    /\ commitsMade > 0
    /\ pc = "boundary"
    /\ ret = <<>>
    /\ Commits = commitsMade

\* C26 as stated: a pass that has gone on to the post-count or has returned has
\* seen the agent exit and the adapter finish, and every line the agent wrote
\* has been read by the adapter.
C26_NothingLeftUnread ==
    mainPc \in {"post", "returned"} =>
        /\ agentExited
        /\ feedPc = "done"
        /\ Len(readLines) = agentWritten

\* C27: what the display goroutine has received is always a prefix of what the
\* adapter has sent, in every interleaving.
C27_ReceivedIsPrefixOfEmitted ==
    /\ Len(received) <= Len(emitted)
    /\ received = SubSeq(emitted, 1, Len(received))
    /\ emitted = received \o chanBuf
    /\ Len(chanBuf) <= EventsCap

C27_Witness ==
    /\ Len(received) = MaxOut
    /\ MaxOut > 1
    /\ received = emitted

C29_OnlyAdapterOrVerifyErrors ==
    itOut # <<>> => itOut[1].err \in {"none", "adapter", "verify"}

\* C29: RunIteration returns an error exactly when the pass could not be started
\* (pre-count, empty command, pipes, start), the adapter's read failed, the
\* post-count failed, the changed files could not be listed, or the verification
\* failed, the first of these in that order; the agent's exit status alone
\* never makes one.
C29_ErrorSources ==
    itOut # <<>> =>
        LET in == itIn[1]
            out == itOut[1]
        IN  /\ out.err = (IF in.startErr THEN "start"
                          ELSE IF in.adapterErr THEN "adapter"
                          ELSE IF in.afterErr THEN "count_after"
                          ELSE IF in.filesErr THEN "changed_files"
                          ELSE IF in.verify /\ in.verifyFail THEN "verify"
                          ELSE "none")
            /\ out.err # "agent_exit"

C29_Witness ==
    /\ itOut # <<>>
    /\ itIn[1].cmdErr
    /\ ~itIn[1].startErr /\ ~itIn[1].adapterErr /\ ~itIn[1].afterErr
    /\ itIn[1].filesErr
    /\ itOut[1].err = "changed_files"

\* C30: Metrics.Iterations changes only by one and only when a pass is started
\* from the top of the loop with both boundary checks passed; every pass
\* started there is counted, including one that fails at once; and the end of a
\* pass, failed or not, leads back to the boundary checks or out of Run.
C30_EachPassCountedOnce ==
    [][/\ Iterations' # Iterations =>
              /\ Iterations' = Iterations + 1
              /\ pc = "boundary"
              /\ BoundaryCheck(cancelled, Iterations, maxIters) = "run"
       /\ pc' = "running" /\ pc # "running" =>
              /\ pc = "boundary"
              /\ Iterations' = Iterations + 1
       /\ (/\ pc = "boundary"
           /\ BoundaryCheck(cancelled, Iterations, maxIters) = "run"
           /\ UNCHANGED signals) => Iterations' = Iterations + 1
       /\ pc = "running" /\ pc' # "running" =>
              /\ pc' \in {"boundary", "done"}
              /\ Iterations' = Iterations]_vars

C30_Witness ==
    /\ pc = "running"
    /\ Iterations = 2
    /\ iterErr = "adapter"

\* C31: a pass is started (counted, pre-count taken, agent spawned) only from
\* the top of the loop, where no agent is running and the pass before it has
\* been evaluated to the end; while an agent runs nothing of the loop moves,
\* and its end is one evaluation that leads to the top of the loop or out.
C31_PassesNeverOverlap ==
    [][/\ (\/ Iterations' # Iterations
           \/ commitsBefore' # commitsBefore
           \/ pc' = "running" /\ (pc # "running" \/ Iterations' # Iterations)) =>
              /\ pc = "boundary"
              /\ ret = <<>>
              /\ pc' = "running" => commitsBefore' = commitCount
       /\ pc = "running" =>
              /\ UNCHANGED <<Iterations, commitsBefore>>
              /\ pc' = "running" =>
                     UNCHANGED <<Commits, commitsMade, hasChanges, iterErr, pushAttempted,
                                 pushOutcome, iterationsWithoutCommit, ret>>
              /\ pc' # "running" =>
                     /\ pc' \in {"boundary", "done"}
                     /\ pushAttempted' = (AutoPush /\ commitsMade' > 0)
                     /\ Commits' = Commits + commitsMade']_vars

C31_Witness ==
    /\ pc = "running"
    /\ Iterations = 2
    /\ pushAttempted
    /\ pushOutcome = "none"
    /\ commitsBefore = commitCount

\* C35 as stated: whenever a pass ends, Metrics.Commits grows by the commits the
\* pass really added to the branch, whether or not the pass ended with an error.
C35_MetricsCountRealCommits ==
    [][pc = "running" /\ pc' # "running" =>
          Commits' = Commits + (commitCount - commitsBefore)]_vars

\* C38: in a looping run without a cap whose passes so far have all reported
\* commitsMade = 0, no more than max(StuckThreshold, 1) passes have been made, the
\* run goes on only below that number and only with changes left, and it has
\* ended with Success or Stuck unless it was interrupted.
C38_ZeroCommitRunEnds ==
    LET most == IF StuckThreshold > 1 THEN StuckThreshold ELSE 1
    IN  (~singleRun /\ maxIters = 0 /\ Iterations > 0 /\ pc # "running"
             /\ commitsMade = 0 /\ counterBefore = Iterations - 1) =>
            /\ Iterations <= most
            /\ ret \in {<<>>, <<ExitSuccess>>, <<ExitStuck>>, <<ExitInterrupt>>}
            /\ ret = <<>> => Iterations < most /\ hasChanges
            /\ ret = <<ExitInterrupt>> => Iterations < most /\ hasChanges
            /\ ret = <<ExitSuccess>> => ~hasChanges
            /\ ret = <<ExitStuck>> => hasChanges /\ Iterations = most

C38_Witness ==
    /\ ~singleRun
    /\ maxIters = 0
    /\ StuckThreshold = 2
    /\ Iterations = 2
    /\ counterBefore = 1
    /\ commitsMade = 0
    /\ ret = <<ExitStuck>>

\* C39 as stated: a looping run that has returned Success has a working tree
\* that the query found clean.
C39_SuccessOnlyOnCleanTree ==
    (~singleRun /\ ret = <<ExitSuccess>>) => ~dirty

\* C40: for a pass that ends with no error or with a failed verification alone,
\* the commits reported, the exit taken, the stuck counter and the Metrics are
\* what the commits made and the change query give, the same in both cases.
C40_VerificationNeverDecides ==
    [][(pc = "running" /\ pc' # "running" /\ iterErr' \in {"none", "verify"}) =>
          LET made == commitCount - commitsBefore
          IN  /\ commitsMade' = made
              /\ Commits' = Commits + made
              /\ ret' = Evaluate(hasChanges', made, iterationsWithoutCommit,
                                 StuckThreshold, singleRun)
              /\ iterationsWithoutCommit' =
                     IF IsComplete(hasChanges', made) THEN iterationsWithoutCommit
                     ELSE StuckCount(hasChanges', made, iterationsWithoutCommit)
              /\ Iterations' = Iterations]_vars

C40_Witness ==
    /\ ~singleRun
    /\ iterErr = "verify"
    /\ ret = <<ExitSuccess>>
    /\ commitsMade = 0

\* C36 as stated: whatever the agent set out to write, it gets to exit and
\* RunIteration gets past both of its waits.
C36_PassNeverBlocksForever ==
    <>(agentExited /\ mainPc \in {"post", "returned"})

\* C37 as stated: when RunIteration returns, every event the adapter sent has
\* been received by the display goroutine and none is left in the channel.
C37_AllEventsDisplayedAtReturn ==
    mainPc = "returned" => (received = emitted /\ chanBuf = <<>>)

\* C32: after one call of BuildCommand and after a second one with the same
\* arguments, the profile's flag lists hold what they held, the slice returned
\* shares no array with them, what it holds is the argv, and the second call
\* returns an equal argv in an array of its own.
C32_BuildCommandIsPure ==
    bcOut # <<>> =>
        LET in == bcIn[1]
            o == bcOut[1]
        IN  /\ Contents(o.heap, o.profile.AutonomousFlags) = in.profile.AutonomousFlags
            /\ Contents(o.heap, o.profile.InteractiveFlags) = in.profile.InteractiveFlags
            /\ o.args.arr \notin {o.profile.AutonomousFlags.arr,
                                  o.profile.InteractiveFlags.arr}
            /\ Contents(o.heap, o.args) = o.argv
            /\ o.again # <<>> =>
                  /\ Contents(o.heap, o.again[1]) = Contents(o.heap, o.args)
                  /\ o.again[1].arr \notin {o.args.arr, o.profile.AutonomousFlags.arr,
                                            o.profile.InteractiveFlags.arr}

C32_Witness ==
    /\ bcOut # <<>>
    /\ bcOut[1].again # <<>>
    /\ bcOut[1].autonomous
    /\ bcIn[1].profile.AutonomousFlags # <<>>
    /\ Len(Contents(bcOut[1].heap, bcOut[1].again[1])) >= 3

\* The commit records of the calls made, those of the latest call first.
RECURSIVE NewestFirst(_)
NewestFirst(calls) ==
    IF calls = <<>> THEN <<>>
    ELSE calls[Len(calls)].newCommits \o NewestFirst(SubSeq(calls, 1, Len(calls) - 1))

RECURSIVE SumMade(_)
SumMade(calls) ==
    IF calls = <<>> THEN 0
    ELSE calls[Len(calls)].commitsMade + SumMade(SubSeq(calls, 1, Len(calls) - 1))

\* C33: after any calls of RecordIteration the log holds at most MaxCommitLog
\* records, namely the first ones of all records handed over taken newest call
\* first (so only the oldest are dropped), Iterations is the number of calls
\* and Commits the sum of the commitsMade arguments.
C33_CommitLogCappedNewestFirst ==
    (memory # <<>> /\ session = <<>>) =>
        /\ Len(memory[1].CommitLog) <= MaxCommitLog
        /\ memory[1].CommitLog = FirstN(NewestFirst(recorded), MaxCommitLog)
        /\ memory[1].Iterations = Len(recorded)
        /\ memory[1].Commits = SumMade(recorded)

C33_Witness ==
    /\ Len(recorded) = 3
    /\ Len(NewestFirst(recorded)) > MaxCommitLog
    /\ Len(memory[1].CommitLog) = MaxCommitLog
    /\ memory[1].CommitLog[1] = <<3, 1>>
    /\ memory[1].CommitLog[MaxCommitLog][1] = 1
    /\ memory[1].Commits > MaxCommitLog

\* C34: in a run with memory, at the top of the loop and after Run has returned
\* the memory's Iterations and Commits are those of Metrics, after the return its
\* ExitReason is Metrics.ExitReason, and the memory file holds just that memory
\* whenever the last write of it succeeded.
C34_MemoryFollowsMetrics ==
    session # <<>> =>
        LET s == session[1]
            m == memory[1]
        IN  /\ m.Iterations = s.Iterations
            /\ m.Commits = s.Commits
            /\ s.lastSave = "ok" => s.file = <<m>>
            /\ s.lastSave = "none" => s.Iterations = 0 /\ s.file = <<>>
            /\ s.pc = "boundary" => s.ret = <<>> /\ m.ExitReason = ""
            /\ s.pc = "done" =>
                  /\ s.ret # <<>>
                  /\ s.ExitReason = ExitReasonString(s.ret[1])
                  /\ m.ExitReason = s.ExitReason

C34_Witness ==
    /\ session # <<>>
    /\ session[1].pc = "done"
    /\ session[1].ret = <<ExitStuck>>
    /\ session[1].Iterations = 2
    /\ session[1].Commits = 1
    /\ session[1].file = memory
    /\ memory[1].ExitReason = ExitReasonString(ExitStuck)

====
